---- MODULE Spec2Model ----
(***************************************************************************)
(* A model of the Dynamixel Protocol 2.0 driver and controller of          *)
(* dxl_go: the wire codec (protocol.go), the transaction engine            *)
(* (driver: readPacketWithTimeout, Transfer, Read/Write/Ping, SyncRead,    *)
(* SyncRead4Byte), the controller (Start, SetOperatingMode, Stop,          *)
(* controlLoop) and the trajectory executor (trajectory.go).               *)
(*                                                                         *)
(* These state machines share the module:                                  *)
(*   SpecDriver  one driver call on a port whose received bytes arrive in  *)
(*               arbitrary chunks;                                         *)
(*   Spec        the controller: the application task, the control loop    *)
(*               goroutine and a feedback listener.                        *)
(*   FairSpec    Spec with the fairness Go's scheduler and select give.    *)
(*   SpecMode    SetOperatingMode calls, with any mode, on a started       *)
(*               controller;                                               *)
(*   SpecExec    Execute / ExecuteWithContext / ExecuteAsync against the   *)
(*               control loop and Stop; FairSpecExec adds fairness;        *)
(*   SpecCodec   StuffParams, DestuffParams, BuildPacket and ParsePacket on   *)
(*               their own;                                                *)
(*   SpecTimed   one Read / Ping against the clock; FairSpecTimed adds     *)
(*               the passing of time;                                      *)
(*   SpecProfile the trapezoidal profile in real arithmetic, and           *)
(*               SpecProfileFloat in rounded floating-point arithmetic.    *)
(***************************************************************************)
EXTENDS Integers, Sequences, FiniteSets, TLC

(***************************************************************************)
(* Bounds of the model.                                                    *)
(***************************************************************************)
\* longest garbage prefix in front of a status packet
MaxGarbage == 3
\* longest ID list handed to SyncRead4Byte
MaxIds == 2
\* longest Driver.Timeout, in clock ticks
MaxTimeout == 2
\* bits in the significand of the scaled-down floating-point format (53 in a float64)
MantBits == 5

(***************************************************************************)
(* Bytes and 16-bit arithmetic.                                            *)
(***************************************************************************)
Byte == 0..255

Min(a, b) == IF a < b THEN a ELSE b

RECURSIVE BitXor(_, _)
\* a ^ b on non-negative integers
BitXor(a, b) ==
    IF a = 0 THEN b
    ELSE IF b = 0 THEN a
    ELSE (((a % 2) + (b % 2)) % 2) + 2 * BitXor(a \div 2, b \div 2)

\* uint16(x << n)
Shl16(x, n) == (x * (2 ^ n)) % 65536

RECURSIVE CrcShift(_, _)
\* the inner loop of init(): j more rounds of shift-and-xor with the polynomial
CrcShift(crc, j) ==
    IF j = 0 THEN crc
    ELSE IF crc >= 32768
         THEN CrcShift(BitXor(Shl16(crc, 1), 32773), j - 1)
         ELSE CrcShift(Shl16(crc, 1), j - 1)

\* a table whose init() forgets to move the index into the high byte
crcTable_NoShift == [i \in 0..255 |-> CrcShift(i, 8)]

\* var crcTable [256]uint16, filled by init() with poly 0x8005
crcTable == [i \in 0..255 |-> CrcShift(Shl16(i, 8), 8)]

RECURSIVE CrcFold(_, _, _)
CrcFold(crc, data, k) ==
    IF k > Len(data) THEN crc
    ELSE CrcFold(BitXor(Shl16(crc, 8),
                        crcTable[BitXor(crc \div 256, data[k]) % 256]),
                 data, k + 1)

\* func UpdateCRC(crcStart uint16, data []byte) uint16
UpdateCRC(crcStart, data) == CrcFold(crcStart, data, 1)

(***************************************************************************)
(* Byte stuffing.                                                          *)
(***************************************************************************)
RECURSIVE StuffFrom(_, _, _)
StuffFrom(params, k, ffCount) ==
    IF k > Len(params) THEN << >>
    ELSE LET b == params[k] IN
         IF b = 255
         THEN <<b>> \o StuffFrom(params, k + 1, ffCount + 1)
         ELSE IF ffCount >= 2 /\ b = 253
              THEN <<b, 253>> \o StuffFrom(params, k + 1, 0)
              ELSE <<b>> \o StuffFrom(params, k + 1, 0)

\* a StuffParams that inserts nothing
StuffParams_Unstuffed(params) == params

\* func StuffParams(params []byte) []byte
StuffParams(params) == StuffFrom(params, 1, 0)

RECURSIVE DestuffFrom(_, _)
\* the loop of DestuffParams; i is the 0-based index of the code
DestuffFrom(data, i) ==
    IF i >= Len(data) THEN << >>
    ELSE IF i + 3 < Len(data)
            /\ data[i + 1] = 255 /\ data[i + 2] = 255
            /\ data[i + 3] = 253 /\ data[i + 4] = 253
         THEN <<255, 255, 253>> \o DestuffFrom(data, i + 4)
         ELSE <<data[i + 1]>> \o DestuffFrom(data, i + 1)

\* a DestuffParams whose short-input return is off by one
DestuffParams_ShortOffByOne(data) == IF Len(data) < 5 THEN data ELSE DestuffFrom(data, 0)

\* func DestuffParams(data []byte) []byte
DestuffParams(data) == IF Len(data) < 4 THEN data ELSE DestuffFrom(data, 0)

(***************************************************************************)
(* Packets.                                                                *)
(***************************************************************************)
InstPing == 1
InstRead == 2
InstWrite == 3
InstStatus == 85
InstSyncRead == 130
InstSyncWrite == 131
BroadcastID == 254

\* the two CRC bytes appended to pkt, low byte first
WithCRC(pkt) ==
    LET crc == UpdateCRC(0, pkt) IN pkt \o <<crc % 256, (crc \div 256) % 256>>

\* BuildPacket up to the instruction, for n stuffed parameter bytes: the header, the id,
\* byte(length&0xFF), byte((length>>8)&0xFF) and inst
PacketHead(id, inst, n) ==
    LET length == 1 + n + 2
    IN  <<255, 255, 253, 0, id, length % 256, (length \div 256) % 256, inst>>

\* func BuildPacket(id uint8, inst uint8, params []byte) []byte
BuildPacket(id, inst, params) ==
    LET stuffedParams == StuffParams(params)
    IN  WithCRC(PacketHead(id, inst, Len(stuffedParams)) \o stuffedParams)

\* buildStatusPacket up to the error byte, for n parameter bytes
StatusHead(id, errCode, n) ==
    LET length == 2 + n + 2
    IN  <<255, 255, 253, 0, id, length % 256, (length \div 256) % 256, InstStatus, errCode>>

\* func buildStatusPacket(id uint8, errCode uint8, params []byte) []byte: what a servo answers
buildStatusPacket(id, errCode, params) ==
    WithCRC(StatusHead(id, errCode, Len(params)) \o params)

NoParse(e) == [id |-> 0, errCode |-> 0, params |-> << >>, err |-> e]

\* func ParsePacket(packet []byte) (id, errCode, params, err); err = "nil" on success
\* a ParsePacket that compares the length before it looks at the header
ParseFrame_LengthFirst(packet, n) ==
    IF n < 11 THEN "packet too short"
    ELSE LET length == packet[6] + 256 * packet[7] IN
         IF n # (length + 7) % 65536 THEN "length mismatch"
         ELSE IF packet[1] # 255 \/ packet[2] # 255 \/ packet[3] # 253
              THEN "invalid header"
         ELSE "nil"

\* the checks of ParsePacket that read only len(packet) = n and the first seven bytes;
\* length + 7 is computed in uint16
ParseFrame(packet, n) ==
    IF n < 11 THEN "packet too short"
    ELSE IF packet[1] # 255 \/ packet[2] # 255 \/ packet[3] # 253
         THEN "invalid header"
    ELSE LET length == packet[6] + 256 * packet[7] IN
         IF n # (length + 7) % 65536 THEN "length mismatch"
         ELSE "nil"

ParsePacket(packet) ==
    LET n == Len(packet)
        frameErr == ParseFrame(packet, n)
    IN  IF frameErr # "nil" THEN NoParse(frameErr)
        ELSE LET receivedCRC == packet[n - 1] + 256 * packet[n]
                 calcCRC == UpdateCRC(0, SubSeq(packet, 1, n - 2))
             IN  IF receivedCRC # calcCRC THEN NoParse("CRC error")
                 ELSE [id |-> packet[5], errCode |-> packet[9],
                       params |-> IF n > 11
                                  THEN DestuffParams(SubSeq(packet, 10, n - 2))
                                  ELSE << >>,
                       err |-> "nil"]

\* binary.LittleEndian.Uint16 / Uint32 / PutUint16
Uint16LE(d) == d[1] + 256 * d[2]
Uint32LE(d) == d[1] + 256 * d[2] + 65536 * d[3] + 16777216 * d[4]
PutUint16(v) == <<v % 256, (v \div 256) % 256>>

(***************************************************************************)
(* The state.                                                              *)
(***************************************************************************)
VARIABLES
    \* ---- one driver call (SpecDriver) ----
    op,        \* the driver method called: "Read", "Write", "Ping", "SyncRead4Byte"
    motors,    \* input: SyncWrite's motors slice
    dataLength, \* input: SyncWrite's dataLength
    ids,       \* its ID list (one ID for Read/Write/Ping)
    garbage,   \* input: the noise bytes in front of the servos' answers
    wirePkts,  \* input: the status packets the servos send, in order
    cuts,      \* input: the stream offsets at which a port.Read may end (arrival times)
    portRx,    \* the bytes port.Read has yet to deliver
    portTx,    \* the packets port.Write has accepted
    buf,       \* readPacketWithTimeout's local buffer
    dpc,       \* where the call is: "call", "reading", "done"
    idx,       \* SyncRead's loop index i (1-based)
    results,   \* SyncRead's results slice
    rxLog,     \* history: what each readPacketWithTimeout call returned
    ret,       \* what the method returned
    \* ---- one Transfer against the clock (SpecTimed) ----
    tmo,       \* input: Driver.Timeout, in clock ticks
    tWire,     \* input: the status packet the servo sends, << >> when it does not answer
    tCut,      \* input: how many bytes of it arrive first
    tAt,       \* input: <<a1, a2>>, the ticks at which the two pieces arrive
    now,       \* the clock: ticks since the call began
    tRx,       \* how many bytes port.Read has delivered
    tBuf,      \* readPacketWithTimeout's local buffer
    tPc,       \* where the call is: "call", "loop", "done"
    tOut,      \* what readPacketWithTimeout returned
    tRet,      \* what Read / Write / Ping returned
    tEnd,      \* the tick at which the call returned
    \* ---- the trapezoidal profile (SpecProfile, SpecProfileFloat) ----
    prec,      \* input: 0 for exact arithmetic, else the bits of the significand
    args,      \* input: NewTrapezoidalProfile's startPos, targetPos, maxVel, accel
    sampleRate, \* input: Generate's sampleRate
    prof,      \* the TrapezoidalProfile
    profErr,   \* the error NewTrapezoidalProfile returned
    ppc,       \* "new", "failed", "built", "generated"
    traj       \* what Generate returned

profVars == <<prec, args, sampleRate, prof, profErr, ppc, traj>>

timeVars == <<tmo, tWire, tCut, tAt, now, tRx, tBuf, tPc, tOut, tRet, tEnd, profVars>>

driverVars == <<op, ids, motors, dataLength, garbage, wirePkts, cuts, portRx, portTx, buf,
                dpc, idx, results, rxLog, ret, timeVars>>

VARIABLES
    \* ---- the controller (Spec) ----
    appPc,            \* where the application task is in Start / SetOperatingMode / Stop
    appTx,            \* the application task wrote a request and its response is outstanding
    somMode,          \* SetOperatingMode's mode argument while the call runs
    port,             \* the serial port: "unopened", "open", "closed"
    startOk,          \* history: the steps of Start that completed without error
    stops,            \* history: how many calls of Stop have returned
    cancelled,        \* c.ctx is done
    wg,               \* c.wg's counter
    CommandChan,      \* chan []Command, capacity 1
    FeedbackChan,     \* chan []Feedback
    MotorIDs,         \* c.MotorIDs
    useSyncReadWrite, \* c.useSyncReadWrite
    activeGoalAddr,   \* c.activeGoalAddr
    loopPc,           \* where controlLoop is
    loopTx,           \* the loop wrote a request and its response is outstanding
    cmds,             \* the loop's cmds still to be written
    goalAddr,         \* the loop's goalAddr
    motorIDs,         \* the loop's motorIDs
    feedbacks,        \* the loop's feedbacks
    loopErr,          \* the err of the loop's last driver call
    tick,             \* history: how many telemetry batches the loop has sampled
    sent,             \* history: how many command batches were sent
    lastDropped,      \* history: the sample number of the last batch dropped on a full channel
    written,          \* history: the commands the loop has handed to the driver in this tick
    somLog            \* history: the steps the running SetOperatingMode call has performed

ctlVars == <<appPc, appTx, somMode, port, startOk, stops, cancelled, wg, CommandChan,
             FeedbackChan, MotorIDs, useSyncReadWrite, activeGoalAddr, loopPc, loopTx,
             cmds, goalAddr, motorIDs, feedbacks, loopErr, tick, sent, lastDropped,
             written, somLog>>

(***************************************************************************)
(* The trajectory executor task (trajectory.go).                           *)
(***************************************************************************)
VARIABLES
    exKind,           \* which entry point the task runs: Execute, ExecuteWithContext, ExecuteAsync
    exPc,             \* where the task is: idle, send, tick, closing, returned
    points,           \* the samples profile.Generate returned
    exI,              \* the loop index i of the sample at hand (from 1)
    exRet,            \* the error the call returned, or that the task put on errChan
    errBuf,           \* ExecuteAsync: the buffer of errChan (capacity 1)
    errClosed,        \* ExecuteAsync: errChan is closed
    pushed,           \* history: the Values the task has sent on CommandChan
    received          \* history: what the caller has received from errChan

execVars == <<exKind, exPc, points, exI, exRet, errBuf, errClosed, pushed, received>>

(***************************************************************************)
(* A caller of the wire codec (protocol.go).                               *)
(***************************************************************************)
VARIABLES
    cPc,              \* what the caller has done: new, stuffed, destuffed, built
    cParams,          \* the head of the params it passes
    cZeros,           \* how many zero bytes follow cParams in the params it passes
    cStuffed,         \* what StuffParams returned
    cOut,             \* what DestuffParams returned
    cId,              \* the id passed to BuildPacket
    cInst,            \* the inst passed to BuildPacket
    cHead,            \* the first eight bytes of the packet BuildPacket returned
    cTotal,           \* the length of that packet
    cPkt,             \* that packet, when the model builds it byte by byte
    pSrc,             \* how the bytes handed to ParsePacket were made
    pPkt,             \* the bytes handed to ParsePacket (their first nine when they are long)
    pTotal,           \* how many bytes were handed to ParsePacket
    pRes,             \* what ParsePacket returned
    crcIn,            \* the arguments of an UpdateCRC call: [start, data]
    crcOut            \* what UpdateCRC returned

parseVars == <<pSrc, pPkt, pTotal, pRes>>

crcVars == <<crcIn, crcOut>>

codecVars == <<cPc, cParams, cZeros, cStuffed, cOut, cId, cInst, cHead, cTotal, cPkt,
               parseVars, crcVars>>

vars == <<driverVars, ctlVars, execVars, codecVars>>

(***************************************************************************)
(* Driver constants and inputs.                                            *)
(***************************************************************************)
ReadBufferSize == 1024
MinHeaderSize == 7
AddrGoalPosition == 116
AddrPresentPosition == 132

RECURSIVE SeqsUpTo(_, _)
\* every sequence over S of length at most n
SeqsUpTo(S, n) ==
    IF n = 0 THEN {<< >>}
    ELSE LET shorter == SeqsUpTo(S, n - 1)
         IN  shorter \cup {Append(q, x) : q \in shorter, x \in S}

RECURSIVE Flatten(_)
Flatten(pkts) == IF pkts = << >> THEN << >> ELSE Head(pkts) \o Flatten(Tail(pkts))

\* noise bytes: the header bytes and a neutral byte
GarbageBytes == {0, 253, 255}
Garbage == SeqsUpTo(GarbageBytes, MaxGarbage)

\* payloads of the tests: position 2048, position 4096, model 1060 + firmware
Pos2048 == <<0, 8, 0, 0>>
Pos4096 == <<0, 16, 0, 0>>
Model1060 == <<36, 4, 42>>

\* the answers of servo 1 to a Read / Write / Ping: error byte and payload
AnswerSpecs ==
    { [errCode |-> 0, params |-> Pos2048], [errCode |-> 0, params |-> << >>],
      [errCode |-> 0, params |-> Model1060], [errCode |-> 128, params |-> << >>] }
AnswerPacket == [a \in AnswerSpecs |-> buildStatusPacket(1, a.errCode, a.params)]
Answers == {AnswerPacket[a] : a \in AnswerSpecs}

\* a status packet whose CRC field is wrong
BadCrc(pkt) == [pkt EXCEPT ![Len(pkt)] = (pkt[Len(pkt)] + 1) % 256]

\* what a servo may answer to a SyncRead: ID 1 its position or a status error, ID 2
\* its position, a 2-byte payload or a corrupted packet
ServoAnswers(id) ==
    IF id = 1
      THEN {buildStatusPacket(1, 0, Pos2048), buildStatusPacket(1, 128, << >>)}
      ELSE {buildStatusPacket(2, 0, Pos4096), buildStatusPacket(2, 0, <<0, 16>>),
            BadCrc(buildStatusPacket(2, 0, << >>))}

RECURSIVE WiresFor(_)
\* the packet sequences the servos of ID list l may put on the wire: each servo, in
\* list order, sends one of its answers or stays silent
WiresFor(l) ==
    IF l = << >> THEN {<< >>}
    ELSE LET rest == WiresFor(Tail(l))
         IN  rest \cup {<<a>> \o w : a \in ServoAnswers(Head(l)), w \in rest}

RECURSIVE PacketCuts(_, _)
\* the offsets, in a stream that starts at offset at, of each packet's end and of the
\* end of its header and length fields
PacketCuts(pkts, at) ==
    IF pkts = << >> THEN {}
    ELSE {at + MinHeaderSize, at + Len(Head(pkts))}
         \cup PacketCuts(Tail(pkts), at + Len(Head(pkts)))

MotorIdSet == {1, 2}
IdLists == SeqsUpTo(MotorIdSet, MaxIds)

(***************************************************************************)
(* readPacketWithTimeout.                                                  *)
(***************************************************************************)
RECURSIVE FindFrom(_, _)
\* the loop of findPacketStart from 0-based index i
FindFrom(data, i) ==
    IF i >= Len(data) - 2 THEN -1
    ELSE IF data[i + 1] = 255 /\ data[i + 2] = 255 /\ data[i + 3] = 253 THEN i
    ELSE FindFrom(data, i + 1)

\* a findPacketStart that does not scan: it takes the buffer to begin with the header
findPacketStart_NoScan(data) == IF Len(data) >= 3 THEN 0 ELSE -1

\* a findPacketStart that takes FF FF with any third byte for the header
findPacketStart_AnyThirdByte(data) ==
    LET pairs == {i \in 1..(Len(data) - 2) : data[i] = 255 /\ data[i + 1] = 255}
    IN  IF pairs = {} THEN -1
        ELSE (CHOOSE i \in pairs : \A j \in pairs : i <= j) - 1

\* func findPacketStart(data []byte) int
findPacketStart(data) == FindFrom(data, 0)

NoPacket == [found |-> FALSE, pkt |-> << >>]

\* the test readPacketWithTimeout makes on its buffer after every non-empty read:
\* the complete packet to return, if the buffer holds one
Extract(b) ==
    IF Len(b) < MinHeaderSize THEN NoPacket
    ELSE LET startIdx == findPacketStart(b) IN
         IF startIdx = -1 \/ Len(b) < startIdx + MinHeaderSize THEN NoPacket
         ELSE LET bodyLen == b[startIdx + 6] + 256 * b[startIdx + 7]
                  totalLen == startIdx + MinHeaderSize + bodyLen
              IN  IF Len(b) >= totalLen
                  THEN [found |-> TRUE, pkt |-> SubSeq(b, startIdx + 1, totalLen)]
                  ELSE NoPacket

(***************************************************************************)
(* The driver methods, from the return of readPacketWithTimeout on.        *)
(* out is what readPacketWithTimeout returned: [kind |-> "pkt", pkt |-> p],*)
(* or kind "timeout" (the deadline passed) or "ioerr" (port.Read failed);  *)
(* out.left is history: the bytes the port had not yet delivered then.     *)
(***************************************************************************)
\* code is the %02X of a "dxl error code: %02X" error
NoRet == [err |-> "pending", code |-> 0, data |-> << >>, modelNum |-> 0, values |-> << >>]
Fail(e) == [err |-> e, code |-> 0, data |-> << >>, modelNum |-> 0, values |-> << >>]

\* the request each method builds
TxPacket ==
    CASE op = "Read" -> BuildPacket(ids[1], InstRead,
                                    PutUint16(AddrPresentPosition) \o PutUint16(4))
      [] op = "Write" -> BuildPacket(ids[1], InstWrite,
                                     PutUint16(AddrGoalPosition) \o Pos2048)
      [] op = "Ping" -> BuildPacket(ids[1], InstPing, << >>)
      [] OTHER -> BuildPacket(BroadcastID, InstSyncRead,
                              PutUint16(AddrPresentPosition) \o PutUint16(4) \o ids)

\* a Read / Write / Ping that masks the alert bit 0x80 out of the error byte
TransferResult_AlertMasked(out) ==
    IF out.kind # "pkt" THEN Fail(out.kind)
    ELSE LET p == ParsePacket(out.pkt) IN
         IF p.err # "nil" THEN Fail(p.err)
         ELSE IF p.errCode % 128 # 0
              THEN [Fail("dxl error code") EXCEPT !.code = p.errCode]
         ELSE CASE op = "Read" -> [NoRet EXCEPT !.err = "nil", !.data = p.params]
                [] op = "Ping" -> [NoRet EXCEPT !.err = "nil",
                                     !.modelNum = IF Len(p.params) >= 3
                                                  THEN Uint16LE(p.params) ELSE 0]
                [] OTHER -> [NoRet EXCEPT !.err = "nil"]

\* Driver.Read / Driver.Write / Driver.Ping after Transfer returned out
TransferResult(out) ==
    IF out.kind # "pkt" THEN Fail(out.kind)
    ELSE LET p == ParsePacket(out.pkt) IN
         IF p.err # "nil" THEN Fail(p.err)
         ELSE IF p.errCode # 0 THEN [Fail("dxl error code") EXCEPT !.code = p.errCode]
         ELSE CASE op = "Read" -> [NoRet EXCEPT !.err = "nil", !.data = p.params]
                [] op = "Ping" -> [NoRet EXCEPT !.err = "nil",
                                     !.modelNum = IF Len(p.params) >= 3
                                                  THEN Uint16LE(p.params) ELSE 0]
                [] OTHER -> [NoRet EXCEPT !.err = "nil"]

\* the body of SyncRead's loop for ID id after readPacketWithTimeout returned out
SyncReadEntry(id, out) ==
    IF out.kind # "pkt"
    THEN [ID |-> id, Data |-> << >>, Err |-> "timeout waiting for motor"]
    ELSE LET p == ParsePacket(out.pkt) IN
         IF p.err # "nil" THEN [ID |-> id, Data |-> << >>, Err |-> p.err]
         ELSE IF p.errCode # 0 THEN [ID |-> id, Data |-> << >>, Err |-> "motor error code"]
         ELSE [ID |-> id, Data |-> p.params, Err |-> "nil"]

\* values[id] = v, on a Go map
MapPut(m, id, v) == [x \in DOMAIN m \cup {id} |-> IF x = id THEN v ELSE m[x]]

RECURSIVE CollectValues(_, _)
\* SyncRead4Byte's loop over results[1..k]: the map and lastErr
CollectValues(rs, k) ==
    IF k = 0 THEN [values |-> << >>, lastErr |-> "nil"]
    ELSE LET acc == CollectValues(rs, k - 1)
             r == rs[k]
         IN  IF r.Err # "nil" THEN [acc EXCEPT !.lastErr = "motor error"]
             ELSE IF Len(r.Data) # 4 THEN [acc EXCEPT !.lastErr = "invalid data length"]
             ELSE [acc EXCEPT !.values = MapPut(acc.values, r.ID, Uint32LE(r.Data))]

\* a SyncRead4Byte that fails as soon as one ID failed
SyncRead4ByteResult_AnyErr(rs) ==
    LET acc == CollectValues(rs, Len(rs)) IN
    IF acc.lastErr # "nil"
    THEN Fail(acc.lastErr)
    ELSE [NoRet EXCEPT !.err = "nil", !.values = acc.values]

\* SyncRead4Byte once SyncRead returned rs without error
SyncRead4ByteResult(rs) ==
    LET acc == CollectValues(rs, Len(rs)) IN
    IF DOMAIN acc.values = {} /\ acc.lastErr # "nil"
    THEN Fail(acc.lastErr)
    ELSE [NoRet EXCEPT !.err = "nil", !.values = acc.values]

\* a SyncRead whose loop stops at the first ID that failed
SyncReadStep_AbortOnError(out) ==
    LET rs == [results EXCEPT ![idx] = SyncReadEntry(ids[idx], out)] IN
    /\ results' = rs
    /\ IF idx < Len(ids) /\ rs[idx].Err = "nil"
       THEN /\ idx' = idx + 1
            /\ dpc' = "reading"
            /\ ret' = ret
       ELSE /\ idx' = idx
            /\ dpc' = "done"
            /\ ret' = SyncRead4ByteResult(rs)

\* SyncRead's loop, one iteration: store the entry, then the next ID or return
SyncReadStep(out) ==
    LET rs == [results EXCEPT ![idx] = SyncReadEntry(ids[idx], out)] IN
    /\ results' = rs
    /\ IF idx < Len(ids)
       THEN /\ idx' = idx + 1
            /\ dpc' = "reading"
            /\ ret' = ret
       ELSE /\ idx' = idx
            /\ dpc' = "done"
            /\ ret' = SyncRead4ByteResult(rs)

\* Read / Write / Ping return
TransferReturn(out) ==
    /\ ret' = TransferResult(out)
    /\ dpc' = "done"
    /\ UNCHANGED <<idx, results>>

\* history: what a readPacketWithTimeout call returned, with what ParsePacket makes of it
LogEntry(out) ==
    [kind |-> out.kind, pkt |-> out.pkt, left |-> out.left, parsed |-> ParsePacket(out.pkt)]

\* readPacketWithTimeout returns out to its caller; its local buffer is gone
AfterRead(out) ==
    /\ rxLog' = Append(rxLog, LogEntry(out))
    /\ buf' = << >>
    /\ IF op = "SyncRead4Byte" THEN SyncReadStep(out) ELSE TransferReturn(out)

(***************************************************************************)
(* The actions of one driver call.                                         *)
(***************************************************************************)
\* how many bytes of the stream port.Read has delivered so far
Delivered == Len(garbage) + Len(Flatten(wirePkts)) - Len(portRx)

\* Transfer: port.Write(txPacket), then readPacketWithTimeout (Read / Write / Ping)
TransferBegin ==
    /\ dpc = "call"
    /\ op \in {"Read", "Write", "Ping"}
    /\ \/ /\ portTx' = Append(portTx, TxPacket)
          /\ dpc' = "reading"
          /\ ret' = ret
       \/ /\ portTx' = portTx
          /\ dpc' = "done"
          /\ ret' = Fail("write failed")
    /\ UNCHANGED <<timeVars, op, ids, motors, dataLength, garbage, wirePkts, cuts, portRx, buf, idx, results, rxLog>>
    /\ UNCHANGED <<ctlVars, execVars, codecVars>>

\* SyncRead up to its read loop: the empty list, the broadcast write
SyncReadBegin ==
    /\ dpc = "call"
    /\ op = "SyncRead4Byte"
    /\ IF Len(ids) = 0
       THEN /\ ret' = Fail("no motor IDs provided")
            /\ dpc' = "done"
            /\ UNCHANGED <<portTx, results>>
       ELSE \/ /\ portTx' = Append(portTx, TxPacket)
               /\ results' = [i \in 1..Len(ids) |-> [ID |-> 0, Data |-> << >>, Err |-> "nil"]]
               /\ dpc' = "reading"
               /\ ret' = ret
            \/ /\ ret' = Fail("sync read tx failed")
               /\ dpc' = "done"
               /\ UNCHANGED <<portTx, results>>
    /\ UNCHANGED <<timeVars, op, ids, motors, dataLength, garbage, wirePkts, cuts, portRx, buf, idx, rxLog>>
    /\ UNCHANGED <<ctlVars, execVars, codecVars>>

RECURSIVE SyncWriteBody(_, _)
\* SyncWrite's append loop over motors[1..k]: [ID1, Data1..., ID2, Data2..., ...]
SyncWriteBody(ms, k) ==
    IF k = 0 THEN << >> ELSE SyncWriteBody(ms, k - 1) \o <<ms[k].ID>> \o ms[k].Data

\* the packet SyncWrite builds
SyncWriteTx(addr, n, ms) ==
    BuildPacket(BroadcastID, InstSyncWrite,
                PutUint16(addr) \o PutUint16(n) \o SyncWriteBody(ms, Len(ms)))

\* a SyncWrite that validates the data length of the first motor only
SyncWriteCheck_FirstOnly(n, ms) ==
    IF Len(ms) = 0 THEN "no motors provided"
    ELSE IF Len(ms[1].Data) # n THEN "data length mismatch"
    ELSE "nil"

\* SyncWrite's validation: the empty list, then every motor's data length
SyncWriteCheck(n, ms) ==
    IF Len(ms) = 0 THEN "no motors provided"
    ELSE IF \E i \in 1..Len(ms) : Len(ms[i].Data) # n THEN "data length mismatch"
    ELSE "nil"

\* Driver.SyncWrite(AddrGoalPosition, dataLength, motors), start to return
SyncWriteCall ==
    /\ dpc = "call"
    /\ op = "SyncWrite"
    /\ LET e == SyncWriteCheck(dataLength, motors) IN
       IF e # "nil"
       THEN /\ ret' = Fail(e)
            /\ portTx' = portTx
       ELSE \/ /\ portTx' = Append(portTx, SyncWriteTx(AddrGoalPosition, dataLength, motors))
               /\ ret' = [NoRet EXCEPT !.err = "nil"]
            \/ /\ portTx' = portTx
               /\ ret' = Fail("sync write failed")
    /\ dpc' = "done"
    /\ UNCHANGED <<timeVars, op, ids, motors, dataLength, garbage, wirePkts, cuts, portRx, buf, idx,
                   results, rxLog>>
    /\ UNCHANGED <<ctlVars, execVars, codecVars>>

\* one iteration of readPacketWithTimeout's loop in which port.Read delivers k > 0 bytes
RpRead ==
    /\ dpc = "reading"
    /\ \E k \in 1..Min(Len(portRx), ReadBufferSize) :
         /\ Delivered + k \in cuts
         /\ LET b == buf \o SubSeq(portRx, 1, k)
                e == Extract(b)
            IN  /\ portRx' = SubSeq(portRx, k + 1, Len(portRx))
                /\ IF e.found
                   THEN AfterRead([kind |-> "pkt", pkt |-> e.pkt, left |-> Len(portRx) - k])
                   ELSE /\ buf' = b
                        /\ UNCHANGED <<dpc, idx, results, rxLog, ret>>
    /\ UNCHANGED <<timeVars, op, ids, motors, dataLength, garbage, wirePkts, cuts, portTx>>
    /\ UNCHANGED <<ctlVars, execVars, codecVars>>

\* port.Read returns an error
RpReadErr ==
    /\ dpc = "reading"
    /\ AfterRead([kind |-> "ioerr", pkt |-> << >>, left |-> Len(portRx)])
    /\ UNCHANGED <<timeVars, op, ids, motors, dataLength, garbage, wirePkts, cuts, portRx, portTx>>
    /\ UNCHANGED <<ctlVars, execVars, codecVars>>

\* the deadline passes before a complete packet is in the buffer
RpTimeout ==
    /\ dpc = "reading"
    /\ AfterRead([kind |-> "timeout", pkt |-> << >>, left |-> Len(portRx)])
    /\ UNCHANGED <<timeVars, op, ids, motors, dataLength, garbage, wirePkts, cuts, portRx, portTx>>
    /\ UNCHANGED <<ctlVars, execVars, codecVars>>

(***************************************************************************)
(* Initial states.                                                         *)
(***************************************************************************)
\* NewController
CtlInit ==
    /\ appPc = "new"
    /\ appTx = FALSE
    /\ somMode = 0
    /\ port = "unopened"
    /\ startOk = {}
    /\ stops = 0
    /\ cancelled = FALSE
    /\ wg = 0
    /\ CommandChan = << >>
    /\ FeedbackChan = << >>
    /\ MotorIDs = <<1>>
    /\ useSyncReadWrite = FALSE
    /\ activeGoalAddr = AddrGoalPosition
    /\ loopPc = "none"
    /\ loopTx = FALSE
    /\ cmds = << >>
    /\ goalAddr = 0
    /\ motorIDs = << >>
    /\ feedbacks = << >>
    /\ loopErr = FALSE
    /\ tick = 0
    /\ sent = 0
    /\ lastDropped = 0
    /\ written = << >>
    /\ somLog = << >>

\* no trajectory executor runs
ExecIdle ==
    /\ exKind = "none"
    /\ exPc = "idle"
    /\ points = << >>
    /\ exI = 1
    /\ exRet = "none"
    /\ errBuf = << >>
    /\ errClosed = FALSE
    /\ pushed = << >>
    /\ received = << >>

\* ParsePacket has not been called
ParseIdle ==
    /\ pSrc = [kind |-> "none"]
    /\ pPkt = << >>
    /\ pTotal = 0
    /\ pRes = NoParse("pending")

\* UpdateCRC has not been called
CrcIdle ==
    /\ crcIn = [start |-> 0, data |-> << >>]
    /\ crcOut = 0

\* no codec call is modelled on its own
CodecIdle ==
    /\ cPc = "idle"
    /\ cParams = << >>
    /\ cZeros = 0
    /\ cStuffed = << >>
    /\ cOut = << >>
    /\ cId = 0
    /\ cInst = 0
    /\ cHead = << >>
    /\ cTotal = 0
    /\ cPkt = << >>
    /\ ParseIdle
    /\ CrcIdle

\* no profile is modelled
ProfIdle ==
    /\ prec = 0
    /\ args = << >>
    /\ sampleRate = 0
    /\ prof = << >>
    /\ profErr = "none"
    /\ ppc = "idle"
    /\ traj = << >>

\* no call is modelled against the clock
ClockIdle ==
    /\ tmo = 0
    /\ tWire = << >>
    /\ tCut = 0
    /\ tAt = <<0, 0>>
    /\ now = 0
    /\ tRx = 0
    /\ tBuf = << >>
    /\ tPc = "idle"
    /\ tOut = [kind |-> "none", pkt |-> << >>]
    /\ tRet = NoRet
    /\ tEnd = 0

\* neither a timed call nor a profile is modelled
TimeIdle == ClockIdle /\ ProfIdle

\* the SyncWriteData entries a caller passes: a position for ID 1, and for ID 2 a
\* two-byte value or a position
MotorEntries == {[ID |-> 1, Data |-> Pos2048], [ID |-> 2, Data |-> <<0, 16>>],
                 [ID |-> 2, Data |-> Pos4096]}
\* the dataLength arguments
DataLengths == {2, 4}

\* a driver on which a method is about to be called: either Read / Write / Ping of
\* ID 1 answered by garbage || status packet, whose bytes arrive in any chunking, or
\* SyncRead4Byte of an ID list answered by the status packets of the servos that
\* answer, each of which arrives whole or split after its length field
DriverInit ==
    /\ \/ /\ op \in {"Read", "Write", "Ping"}
          /\ ids = <<1>>
          /\ garbage \in Garbage
          /\ wirePkts \in {<<a>> : a \in Answers}
          /\ cuts = 1..(Len(garbage) + Len(wirePkts[1]))
          /\ motors = << >>
          /\ dataLength = 0
       \/ /\ op = "SyncRead4Byte"
          /\ ids \in IdLists
          /\ garbage = << >>
          /\ wirePkts \in WiresFor(ids)
          /\ cuts = PacketCuts(wirePkts, 0)
          /\ motors = << >>
          /\ dataLength = 0
       \/ /\ op = "SyncWrite"
          /\ motors \in SeqsUpTo(MotorEntries, MaxIds)
          /\ dataLength \in DataLengths
          /\ ids = << >>
          /\ garbage = << >>
          /\ wirePkts = << >>
          /\ cuts = {}
    /\ portRx = garbage \o Flatten(wirePkts)
    /\ portTx = << >>
    /\ buf = << >>
    /\ dpc = "call"
    /\ idx = 1
    /\ results = << >>
    /\ rxLog = << >>
    /\ ret = NoRet
    /\ TimeIdle

\* no driver call is modelled byte by byte
DriverUnused ==
    /\ op = "none"
    /\ ids = << >>
    /\ motors = << >>
    /\ dataLength = 0
    /\ garbage = << >>
    /\ wirePkts = << >>
    /\ cuts = {}
    /\ portRx = << >>
    /\ portTx = << >>
    /\ buf = << >>
    /\ dpc = "idle"
    /\ idx = 1
    /\ results = << >>
    /\ rxLog = << >>
    /\ ret = NoRet

\* no driver call is modelled at all
DriverIdle == DriverUnused /\ TimeIdle

InitDriver == DriverInit /\ CtlInit /\ ExecIdle /\ CodecIdle

NextDriver ==
    TransferBegin \/ SyncReadBegin \/ SyncWriteCall \/ RpRead \/ RpReadErr \/ RpTimeout

SpecDriver == InitDriver /\ [][NextDriver]_vars

(***************************************************************************)
(* One Read / Write / Ping against the clock.  The port is the non-blocking *)
(* one of serial_linux.go (VMIN = 0, VTIME = 0): port.Read returns at once   *)
(* with the bytes that have arrived.  The servo's answer arrives in two      *)
(* pieces at ticks a1 <= a2; a tick after every deadline stands for never.   *)
(***************************************************************************)
\* the configured Driver.Timeout values
Timeouts == 1..MaxTimeout
\* arrival ticks: before, at and after the deadlines
ArrivalTicks == 0..(MaxTimeout + 1)
\* what the servo sends: nothing, its position, a status error
TimedWires == {<< >>, buildStatusPacket(1, 0, Pos2048), buildStatusPacket(1, 128, << >>)}
\* where the answer may be split: not at all, after the length field, before its last byte
TimedCuts(w) == IF w = << >> THEN {0} ELSE {0, MinHeaderSize, Len(w) - 1}

\* how many bytes of the answer have arrived at tick t
Arrived(t) ==
    (IF t >= tAt[1] THEN tCut ELSE 0) + (IF t >= tAt[2] THEN Len(tWire) - tCut ELSE 0)

\* a readPacketWithTimeout that waits twice the timeout it is given
Deadline_Doubled(start, timeout) == start + 2 * timeout

\* deadline := time.Now().Add(timeout)
Deadline(start, timeout) == start + timeout

timedFrame == <<op, ids, motors, dataLength, garbage, wirePkts, cuts, portRx, portTx, buf,
                dpc, idx, results, rxLog, ret, profVars, ctlVars, execVars, codecVars>>

\* readPacketWithTimeout returns out, and Read / Write / Ping return on it
TimedReturn(out) ==
    /\ tOut' = out
    /\ tRet' = TransferResult(out)
    /\ tEnd' = now
    /\ tPc' = "done"

\* Transfer: port.Write(txPacket), then readPacketWithTimeout(d.Timeout) begins
TimedBegin ==
    /\ tPc = "call"
    /\ \/ /\ tPc' = "loop"
          /\ UNCHANGED <<tOut, tRet, tEnd>>
       \/ /\ tPc' = "done"
          /\ tRet' = Fail("write failed")
          /\ tEnd' = now
          /\ tOut' = tOut
    /\ UNCHANGED <<tmo, tWire, tCut, tAt, now, tRx, tBuf, timedFrame>>

\* time passes while the loop runs
Tick ==
    /\ tPc = "loop"
    /\ now < Deadline(0, tmo)
    /\ now' = now + 1
    /\ UNCHANGED <<tmo, tWire, tCut, tAt, tRx, tBuf, tPc, tOut, tRet, tEnd, timedFrame>>

\* one iteration of the loop in which port.Read delivers n > 0 bytes
TimedRead ==
    /\ tPc = "loop"
    /\ now < Deadline(0, tmo)
    /\ LET n == Min(Arrived(now) - tRx, ReadBufferSize)
           b == tBuf \o SubSeq(tWire, tRx + 1, tRx + n)
           e == Extract(b)
       IN  /\ n > 0
           /\ tRx' = tRx + n
           /\ IF e.found
              THEN /\ TimedReturn([kind |-> "pkt", pkt |-> e.pkt])
                   /\ tBuf' = << >>
              ELSE /\ tBuf' = b
                   /\ UNCHANGED <<tPc, tOut, tRet, tEnd>>
    /\ UNCHANGED <<tmo, tWire, tCut, tAt, now, timedFrame>>

\* port.Read returns an error
TimedReadErr ==
    /\ tPc = "loop"
    /\ now < Deadline(0, tmo)
    /\ TimedReturn([kind |-> "ioerr", pkt |-> << >>])
    /\ tBuf' = << >>
    /\ UNCHANGED <<tmo, tWire, tCut, tAt, now, tRx, timedFrame>>

\* the loop condition fails: "read timeout, buffered: %x"
TimedExpire ==
    /\ tPc = "loop"
    /\ ~(now < Deadline(0, tmo))
    /\ TimedReturn([kind |-> "timeout", pkt |-> << >>])
    /\ tBuf' = << >>
    /\ UNCHANGED <<tmo, tWire, tCut, tAt, now, tRx, timedFrame>>

\* a Read or Ping of ID 1 is about to be called on a driver with some Timeout
InitTimed ==
    /\ op \in {"Read", "Ping"}
    /\ ids = <<1>>
    /\ motors = << >>
    /\ dataLength = 0
    /\ garbage = << >>
    /\ wirePkts = << >>
    /\ cuts = {}
    /\ portRx = << >>
    /\ portTx = << >>
    /\ buf = << >>
    /\ dpc = "idle"
    /\ idx = 1
    /\ results = << >>
    /\ rxLog = << >>
    /\ ret = NoRet
    /\ tmo \in Timeouts
    /\ tWire \in TimedWires
    /\ tCut \in TimedCuts(tWire)
    /\ tAt \in {<<a1, a2>> \in ArrivalTicks \X ArrivalTicks : a1 <= a2}
    /\ now = 0
    /\ tRx = 0
    /\ tBuf = << >>
    /\ tPc = "call"
    /\ tOut = [kind |-> "none", pkt |-> << >>]
    /\ tRet = NoRet
    /\ tEnd = 0
    /\ ProfIdle
    /\ CtlInit /\ ExecIdle /\ CodecIdle

NextTimed == TimedBegin \/ Tick \/ TimedRead \/ TimedReadErr \/ TimedExpire

SpecTimed == InitTimed /\ [][NextTimed]_vars

\* time passes, and a running loop re-evaluates its condition
FairSpecTimed == SpecTimed /\ WF_vars(TimedBegin) /\ WF_vars(Tick) /\ WF_vars(TimedExpire)

(***************************************************************************)
(* The trapezoidal profile (trajectory.go).  A float64 is a rational       *)
(* [n, d] in lowest terms.  Each floating-point operation yields the exact *)
(* result rounded to the format in use: with prec = 0 nothing is rounded   *)
(* (real arithmetic), with prec > 0 the result is rounded to the nearest   *)
(* number with a significand of prec bits, ties to even, as IEEE 754 does  *)
(* with 53 bits.                                                           *)
(***************************************************************************)
RECURSIVE GCD(_, _)
GCD(a, b) == IF b = 0 THEN a ELSE GCD(b, a % b)

\* the rational n / d, d > 0, in lowest terms
Rat(n, d) ==
    LET g == GCD(IF n < 0 THEN -n ELSE n, d) IN [n |-> n \div g, d |-> d \div g]

RInt(i) == [n |-> i, d |-> 1]
RNeg(x) == [n |-> -x.n, d |-> x.d]
RAdd(x, y) == Rat(x.n * y.d + y.n * x.d, x.d * y.d)
RSub(x, y) == RAdd(x, RNeg(y))
RMul(x, y) == Rat(x.n * y.n, x.d * y.d)
RDiv(x, y) == IF y.n > 0 THEN Rat(x.n * y.d, x.d * y.n) ELSE Rat(-(x.n * y.d), x.d * (-y.n))
RLt(x, y) == x.n * y.d < y.n * x.d
RLeq(x, y) == x.n * y.d <= y.n * x.d
RAbs(x) == IF x.n < 0 THEN RNeg(x) ELSE x
\* math.Ceil, as an integer
RCeil(x) == -((-x.n) \div x.d)

RECURSIVE RoundPos(_, _, _)
\* n / d > 0 rounded to a significand of p bits, ties to even
RoundPos(n, d, p) ==
    IF n >= d * (2 ^ p) THEN RMul(RInt(2), RoundPos(n, 2 * d, p))
    ELSE IF n < d * (2 ^ (p - 1)) THEN RMul(Rat(1, 2), RoundPos(2 * n, d, p))
    ELSE LET m == n \div d
             r == n % d
         IN  IF 2 * r > d \/ (2 * r = d /\ m % 2 = 1) THEN RInt(m + 1) ELSE RInt(m)

\* the result of an operation whose exact value is x
Rnd(x) ==
    IF prec = 0 \/ x.n = 0 THEN x
    ELSE IF x.n > 0 THEN RoundPos(x.n, x.d, prec)
    ELSE RNeg(RoundPos(-x.n, x.d, prec))

FAdd(x, y) == Rnd(RAdd(x, y))
FSub(x, y) == Rnd(RSub(x, y))
FMul(x, y) == Rnd(RMul(x, y))
FDiv(x, y) == Rnd(RDiv(x, y))

\* the largest integer whose square is at most n
ISqrt(n) == CHOOSE m \in 0..n : m * m <= n /\ (m + 1) * (m + 1) > n

IsSquare(n) == ISqrt(n) * ISqrt(n) = n

RECURSIVE SqrtPos(_, _, _)
\* the square root of n / d > 0 rounded to a significand of p bits
SqrtPos(n, d, p) ==
    IF n >= d * (4 ^ p) THEN RMul(RInt(2), SqrtPos(n, 4 * d, p))
    ELSE IF n < d * (4 ^ (p - 1)) THEN RMul(Rat(1, 2), SqrtPos(4 * n, d, p))
    ELSE LET m == ISqrt(n \div d)
         IN  IF 4 * n > (4 * m * m + 4 * m + 1) * d THEN RInt(m + 1) ELSE RInt(m)

\* math.Sqrt: exact when the root is rational, else correctly rounded (the inputs of the
\* exact format keep the roots rational)
FSqrt(x) ==
    IF IsSquare(x.n) /\ IsSquare(x.d) THEN Rnd(Rat(ISqrt(x.n), ISqrt(x.d)))
    ELSE SqrtPos(x.n, x.d, prec)

Zero == RInt(0)
Half == Rat(1, 2)

\* a calculate that forgets the ramps when it computes the cruise time
calculate_NoRamps(a) ==
    LET p0 == [StartPos |-> a.startPos, TargetPos |-> a.targetPos,
               MaxVelocity |-> a.maxVel, Acceleration |-> a.accel,
               distance |-> RAbs(FSub(a.targetPos, a.startPos)),
               totalTime |-> Zero, accelTime |-> Zero, decelTime |-> Zero,
               cruiseTime |-> Zero, cruiseVel |-> Zero]
    IN  IF p0.distance = Zero THEN p0
        ELSE LET timeToMaxVel == FDiv(p0.MaxVelocity, p0.Acceleration)
                 distanceAccelDecel == FMul(p0.MaxVelocity, timeToMaxVel)
                 p1 == IF RLt(p0.distance, distanceAccelDecel)
                       THEN LET cv == FSqrt(FMul(p0.Acceleration, p0.distance))
                                ta == FDiv(cv, p0.Acceleration)
                            IN  [p0 EXCEPT !.cruiseVel = cv, !.accelTime = ta,
                                           !.decelTime = ta, !.cruiseTime = Zero]
                       ELSE [p0 EXCEPT !.cruiseVel = p0.MaxVelocity,
                                       !.accelTime = timeToMaxVel,
                                       !.decelTime = timeToMaxVel,
                                       !.cruiseTime = FDiv(p0.distance, p0.MaxVelocity)]
             IN  [p1 EXCEPT !.totalTime =
                               FAdd(FAdd(p1.accelTime, p1.cruiseTime), p1.decelTime)]

\* NewTrapezoidalProfile's struct literal followed by profile.calculate()
calculate(a) ==
    LET p0 == [StartPos |-> a.startPos, TargetPos |-> a.targetPos,
               MaxVelocity |-> a.maxVel, Acceleration |-> a.accel,
               distance |-> RAbs(FSub(a.targetPos, a.startPos)),
               totalTime |-> Zero, accelTime |-> Zero, decelTime |-> Zero,
               cruiseTime |-> Zero, cruiseVel |-> Zero]
    IN  IF p0.distance = Zero THEN p0
        ELSE LET timeToMaxVel == FDiv(p0.MaxVelocity, p0.Acceleration)
                 distanceAccelDecel == FMul(p0.MaxVelocity, timeToMaxVel)
                 p1 == IF RLt(p0.distance, distanceAccelDecel)
                       THEN LET cv == FSqrt(FMul(p0.Acceleration, p0.distance))
                                ta == FDiv(cv, p0.Acceleration)
                            IN  [p0 EXCEPT !.cruiseVel = cv, !.accelTime = ta,
                                           !.decelTime = ta, !.cruiseTime = Zero]
                       ELSE [p0 EXCEPT !.cruiseVel = p0.MaxVelocity,
                                       !.accelTime = timeToMaxVel,
                                       !.decelTime = timeToMaxVel,
                                       !.cruiseTime =
                                           FDiv(FSub(p0.distance, distanceAccelDecel),
                                                p0.MaxVelocity)]
             IN  [p1 EXCEPT !.totalTime =
                               FAdd(FAdd(p1.accelTime, p1.cruiseTime), p1.decelTime)]

\* Sample's three phases, before the direction is applied: pos, vel and accel at time t
Phase(p, t) ==
    LET posCruiseStart ==
            FMul(FMul(FMul(Half, p.Acceleration), p.accelTime), p.accelTime)
    IN  IF RLeq(t, p.accelTime)
        THEN [pos |-> FMul(FMul(FMul(Half, p.Acceleration), t), t),
              vel |-> FMul(p.Acceleration, t),
              accel |-> p.Acceleration]
        ELSE IF RLeq(t, FAdd(p.accelTime, p.cruiseTime))
        THEN [pos |-> FAdd(posCruiseStart, FMul(p.cruiseVel, FSub(t, p.accelTime))),
              vel |-> p.cruiseVel,
              accel |-> Zero]
        ELSE LET tDecel == FSub(FSub(t, p.accelTime), p.cruiseTime)
                 posCruiseEnd == FAdd(posCruiseStart, FMul(p.cruiseVel, p.cruiseTime))
             IN  [pos |-> FSub(FAdd(posCruiseEnd, FMul(p.cruiseVel, tDecel)),
                               FMul(FMul(FMul(Half, p.Acceleration), tDecel), tDecel)),
                  vel |-> FSub(p.cruiseVel, FMul(p.Acceleration, tDecel)),
                  accel |-> RNeg(p.Acceleration)]

Sample(p, t) ==
    IF RLeq(t, Zero)
    THEN [Time |-> Zero, Position |-> p.StartPos, Velocity |-> Zero, Accel |-> Zero]
    ELSE IF RLeq(p.totalTime, t)
    THEN [Time |-> p.totalTime, Position |-> p.TargetPos, Velocity |-> Zero,
          Accel |-> Zero]
    ELSE LET direction == IF RLt(p.TargetPos, p.StartPos) THEN RInt(-1) ELSE RInt(1)
             ph == Phase(p, t)
         IN  [Time |-> t,
              Position |-> FAdd(p.StartPos, FMul(direction, ph.pos)),
              Velocity |-> FMul(direction, ph.vel),
              Accel |-> FMul(direction, ph.accel)]

\* numPoints := int(math.Ceil(p.totalTime * sampleRate)) + 1
NumPoints(p, rate) == RCeil(FMul(p.totalTime, rate)) + 1

\* Generate(sampleRate): named GeneratePoints here, Generate being the executor's view
GeneratePoints(p, rate) ==
    IF p.totalTime = Zero
    THEN <<[Time |-> Zero, Position |-> p.StartPos, Velocity |-> Zero, Accel |-> Zero]>>
    ELSE LET dt == FDiv(RInt(1), rate)
         IN  [k \in 1..NumPoints(p, rate) |->
                 LET t == FMul(Rnd(RInt(k - 1)), dt)
                 IN  Sample(p, IF RLt(p.totalTime, t) THEN p.totalTime ELSE t)]

\* the positions a profile runs between
Positions == {0, 1, 15}
\* the maxVel and accel arguments, with the invalid 0
Velocities == {0, 2, 3}
Accels == {0, 1, 4}
\* the sample rates, in Hz
Rates == {2, 3}

profFrame == <<op, ids, motors, dataLength, garbage, wirePkts, cuts, portRx, portTx, buf,
               dpc, idx, results, rxLog, ret, tmo, tWire, tCut, tAt, now, tRx, tBuf, tPc,
               tOut, tRet, tEnd, ctlVars, execVars, codecVars>>

\* NewTrapezoidalProfile(startPos, targetPos, maxVel, accel)
NewTrapezoidalProfile ==
    /\ ppc = "new"
    /\ IF ~RLt(Zero, args.maxVel)
       THEN /\ profErr' = "max velocity must be positive"
            /\ ppc' = "failed"
            /\ prof' = prof
       ELSE IF ~RLt(Zero, args.accel)
       THEN /\ profErr' = "acceleration must be positive"
            /\ ppc' = "failed"
            /\ prof' = prof
       ELSE /\ prof' = calculate(args)
            /\ profErr' = "nil"
            /\ ppc' = "built"
    /\ UNCHANGED <<prec, args, sampleRate, traj, profFrame>>

\* profile.Generate(sampleRate)
GenerateCall ==
    /\ ppc = "built"
    /\ traj' = GeneratePoints(prof, sampleRate)
    /\ ppc' = "generated"
    /\ UNCHANGED <<prec, args, sampleRate, prof, profErr, profFrame>>

\* a profile is about to be made from some arguments, under the arithmetic format
InitProfile(format) ==
    /\ prec = format
    /\ args \in [startPos : {RInt(x) : x \in Positions},
                 targetPos : {RInt(x) : x \in Positions},
                 maxVel : {RInt(x) : x \in Velocities},
                 accel : {RInt(x) : x \in Accels}]
    /\ sampleRate \in {RInt(r) : r \in Rates}
    /\ prof = << >>
    /\ profErr = "none"
    /\ ppc = "new"
    /\ traj = << >>
    /\ DriverUnused
    /\ ClockIdle
    /\ CtlInit /\ ExecIdle /\ CodecIdle

NextProfile == NewTrapezoidalProfile \/ GenerateCall

InitReal == InitProfile(0)

InitFloat == InitProfile(MantBits)

\* the profile in real arithmetic
SpecProfile == InitReal /\ [][NextProfile]_vars

\* the profile in floating-point arithmetic, the significand scaled down to MantBits
SpecProfileFloat == InitFloat /\ [][NextProfile]_vars

(***************************************************************************)
(* The controller.  A driver call made by the controller is a request      *)
(* written to the port followed by the response being consumed or timing   *)
(* out; its result is either success or an error.                          *)
(***************************************************************************)
\* capacity of CommandChan
CommandCap == 1
\* capacity of FeedbackChan, scaled down from the 100 of NewController
FeedbackCap == 1
\* telemetry batches the loop samples
MaxTicks == 3
\* command batches the application sends
MaxCmds == 1
\* calls of Stop
MaxStops == 2

OpModeCurrent == 0
OpModeVelocity == 1
OpModePosition == 3
OpModeExtendedPosition == 4
OpModeCurrentBasedPos == 5
OpModePWM == 16
AddrGoalVelocity == 104
AddrGoalPWM == 100

\* the modes the application asks for
ModeInputs == {OpModeVelocity, OpModePosition}
\* the ID lists the application configures and addresses
IdConfigs == {<<1>>, <<1, 2>>}

\* a switch that selects the position address whatever the mode
GoalAddrFor_PositionOnly(mode, cur) == AddrGoalPosition

\* a switch with a default case that falls back to the position address
GoalAddrFor_DefaultPosition(mode, cur) ==
    CASE mode = OpModeVelocity -> AddrGoalVelocity
      [] mode = OpModePWM -> AddrGoalPWM
      [] OTHER -> AddrGoalPosition

\* the switch of SetOperatingMode: the active goal address after mode, given cur
GoalAddrFor(mode, cur) ==
    CASE mode = OpModeVelocity -> AddrGoalVelocity
      [] mode = OpModePWM -> AddrGoalPWM
      [] mode \in {OpModePosition, OpModeExtendedPosition, OpModeCurrentBasedPos}
           -> AddrGoalPosition
      [] mode = OpModeCurrent -> AddrGoalPosition
      [] OTHER -> cur

loopVars == <<loopPc, loopTx, cmds, goalAddr, motorIDs, feedbacks, loopErr, tick>>
chanVars == <<CommandChan, FeedbackChan>>
cfgVars == <<MotorIDs, useSyncReadWrite, activeGoalAddr>>
histVars == <<sent, lastDropped, written, somLog>>

(***************************************************************************)
(* Start.                                                                  *)
(***************************************************************************)
\* OpenSerial succeeds or fails; on success NewDriver and the ping request
StartOpen ==
    /\ appPc = "new"
    /\ \/ /\ port' = "open"
          /\ appPc' = "start_ping"
       \/ /\ port' = port
          /\ appPc' = "start_failed"
    /\ UNCHANGED <<appTx, somMode, startOk, stops, cancelled, wg>>
    /\ UNCHANGED <<chanVars, cfgVars, loopVars, histVars, driverVars, execVars, codecVars>>

\* c.driver.Ping(1): the request is written
StartPing ==
    /\ appPc = "start_ping" /\ ~appTx
    /\ appTx' = TRUE
    /\ UNCHANGED <<appPc, somMode, port, startOk, stops, cancelled, wg>>
    /\ UNCHANGED <<chanVars, cfgVars, loopVars, histVars, driverVars, execVars, codecVars>>

\* Ping returns: on an error the port is closed and Start fails
StartPingDone ==
    /\ appPc = "start_ping" /\ appTx
    /\ appTx' = FALSE
    /\ \/ /\ startOk' = startOk \cup {"ping"}
          /\ appPc' = "start_torque"
          /\ port' = port
       \/ /\ startOk' = startOk
          /\ appPc' = "start_failed"
          /\ port' = "closed"
    /\ UNCHANGED <<somMode, stops, cancelled, wg>>
    /\ UNCHANGED <<chanVars, cfgVars, loopVars, histVars, driverVars, execVars, codecVars>>

\* enableTorque(1): the write of 1 to the torque-enable address is sent
StartTorque ==
    /\ appPc = "start_torque" /\ ~appTx
    /\ appTx' = TRUE
    /\ UNCHANGED <<appPc, somMode, port, startOk, stops, cancelled, wg>>
    /\ UNCHANGED <<chanVars, cfgVars, loopVars, histVars, driverVars, execVars, codecVars>>

\* a Start that starts the loop although the torque-enable write failed
StartTorqueDone_SpawnAnyway ==
    /\ appPc = "start_torque" /\ appTx
    /\ appTx' = FALSE
    /\ \/ /\ startOk' = startOk \cup {"torque"}
          /\ appPc' = "start_verify"
          /\ UNCHANGED <<wg, loopPc>>
       \/ /\ startOk' = startOk
          /\ appPc' = "idle"
          /\ wg' = wg + 1
          /\ loopPc' = "select"
    /\ UNCHANGED <<somMode, port, stops, cancelled>>
    /\ UNCHANGED <<loopTx, cmds, goalAddr, motorIDs, feedbacks, loopErr, tick>>
    /\ UNCHANGED <<chanVars, cfgVars, histVars, driverVars, execVars, codecVars>>

\* the torque-enable write returns: on an error the port is closed and Start fails
StartTorqueDone ==
    /\ appPc = "start_torque" /\ appTx
    /\ appTx' = FALSE
    /\ \/ /\ startOk' = startOk \cup {"torque"}
          /\ appPc' = "start_verify"
          /\ port' = port
       \/ /\ startOk' = startOk
          /\ appPc' = "start_failed"
          /\ port' = "closed"
    /\ UNCHANGED <<somMode, stops, cancelled, wg>>
    /\ UNCHANGED <<chanVars, cfgVars, loopVars, histVars, driverVars, execVars, codecVars>>

\* enableTorque's read-back, after the 50 ms delay: the request is written
StartVerify ==
    /\ appPc = "start_verify" /\ ~appTx
    /\ appTx' = TRUE
    /\ UNCHANGED <<appPc, somMode, port, startOk, stops, cancelled, wg>>
    /\ UNCHANGED <<chanVars, cfgVars, loopVars, histVars, driverVars, execVars, codecVars>>

\* the read-back returns (its result is only logged); wg.Add(1); go controlLoop()
StartVerifyDone ==
    /\ appPc = "start_verify" /\ appTx
    /\ appTx' = FALSE
    /\ wg' = wg + 1
    /\ loopPc' = "select"
    /\ appPc' = "idle"
    /\ UNCHANGED <<somMode, port, startOk, stops, cancelled>>
    /\ UNCHANGED <<loopTx, cmds, goalAddr, motorIDs, feedbacks, loopErr, tick>>
    /\ UNCHANGED <<chanVars, cfgVars, histVars, driverVars, execVars, codecVars>>

(***************************************************************************)
(* SetMotorIDs, SetOperatingMode, the command channel, Stop.               *)
(***************************************************************************)
\* SetMotorIDs(ids), before or after Start
SetMotorIDs ==
    /\ appPc \in {"new", "idle"}
    /\ \E l \in IdConfigs :
         /\ MotorIDs' = l
         /\ useSyncReadWrite' = (Len(l) > 1)
    /\ UNCHANGED <<appPc, appTx, somMode, port, startOk, stops, cancelled, wg>>
    /\ UNCHANGED <<activeGoalAddr, chanVars, loopVars, histVars, driverVars, execVars, codecVars>>

AddrTorqueEnable == 64
AddrOperatingMode == 11
\* time.Sleep(1000 * time.Millisecond) of SetOperatingMode, in ms
SettleDelayMs == 1000
\* time.Sleep(50 * time.Millisecond) of enableTorque, in ms
VerifyDelayMs == 50

\* the steps of a SetOperatingMode call as somLog records them
WriteStep(addr, data) == [op |-> "write", addr |-> addr, data |-> data, res |-> "pending"]
ReadStep(addr, length) == [op |-> "read", addr |-> addr, data |-> length, res |-> "pending"]
SleepStep(ms) == [op |-> "sleep", addr |-> 0, data |-> ms, res |-> "ok"]
GoalAddrStep(addr) == [op |-> "goaladdr", addr |-> addr, data |-> 0, res |-> "ok"]
\* log with the result of its last step filled in
Resolved(log, res) == [log EXCEPT ![Len(log)] = [@ EXCEPT !.res = res]]

\* SetOperatingMode(id, mode) is called with a mode of modes: disableTorque writes
\* its request
SomCall(modes) ==
    /\ appPc = "idle"
    /\ \E mode \in modes : somMode' = mode
    /\ appPc' = "som_disable"
    /\ appTx' = TRUE
    /\ somLog' = <<WriteStep(AddrTorqueEnable, 0)>>
    /\ UNCHANGED <<port, startOk, stops, cancelled, wg>>
    /\ UNCHANGED <<chanVars, cfgVars, loopVars, sent, lastDropped, written, driverVars, execVars, codecVars>>

\* SetOperatingMode(id, mode) is called: disableTorque writes its request
SomDisable == SomCall(ModeInputs)

\* a SetOperatingMode that goes on to the mode write after a failed torque-disable
SomDisableDone_IgnoreError ==
    /\ appPc = "som_disable" /\ appTx
    /\ appTx' = FALSE
    /\ \E res \in {"ok", "err"} : somLog' = Resolved(somLog, res)
    /\ appPc' = "som_mode"
    /\ UNCHANGED <<somMode, port, startOk, stops, cancelled, wg>>
    /\ UNCHANGED <<chanVars, cfgVars, loopVars, sent, lastDropped, written, driverVars, execVars, codecVars>>

\* the torque-disable write returns; an error makes the call return it
SomDisableDone ==
    /\ appPc = "som_disable" /\ appTx
    /\ appTx' = FALSE
    /\ \/ /\ appPc' = "som_mode"
          /\ somLog' = Resolved(somLog, "ok")
       \/ /\ appPc' = "som_failed"
          /\ somLog' = Resolved(somLog, "err")
    /\ UNCHANGED <<somMode, port, startOk, stops, cancelled, wg>>
    /\ UNCHANGED <<chanVars, cfgVars, loopVars, sent, lastDropped, written, driverVars, execVars, codecVars>>

\* the write of mode to the operating-mode address is sent
SomMode ==
    /\ appPc = "som_mode" /\ ~appTx
    /\ appTx' = TRUE
    /\ somLog' = Append(somLog, WriteStep(AddrOperatingMode, somMode))
    /\ UNCHANGED <<appPc, somMode, port, startOk, stops, cancelled, wg>>
    /\ UNCHANGED <<chanVars, cfgVars, loopVars, sent, lastDropped, written, driverVars, execVars, codecVars>>

\* the mode write returns; an error makes the call return it
SomModeDone ==
    /\ appPc = "som_mode" /\ appTx
    /\ appTx' = FALSE
    /\ \/ /\ appPc' = "som_sleep"
          /\ somLog' = Resolved(somLog, "ok")
       \/ /\ appPc' = "som_failed"
          /\ somLog' = Resolved(somLog, "err")
    /\ UNCHANGED <<somMode, port, startOk, stops, cancelled, wg>>
    /\ UNCHANGED <<chanVars, cfgVars, loopVars, sent, lastDropped, written, driverVars, execVars, codecVars>>

\* after the 1000 ms sleep: the active goal address is updated under c.mu
SomUpdate ==
    /\ appPc = "som_sleep"
    /\ activeGoalAddr' = GoalAddrFor(somMode, activeGoalAddr)
    /\ appPc' = "som_enable"
    /\ somLog' = somLog \o <<SleepStep(SettleDelayMs), GoalAddrStep(activeGoalAddr')>>
    /\ UNCHANGED <<appTx, somMode, port, startOk, stops, cancelled, wg>>
    /\ UNCHANGED <<MotorIDs, useSyncReadWrite, chanVars, loopVars, sent, lastDropped, written, driverVars, execVars, codecVars>>

\* enableTorque(id): the write of 1 is sent
SomEnable ==
    /\ appPc = "som_enable" /\ ~appTx
    /\ appTx' = TRUE
    /\ somLog' = Append(somLog, WriteStep(AddrTorqueEnable, 1))
    /\ UNCHANGED <<appPc, somMode, port, startOk, stops, cancelled, wg>>
    /\ UNCHANGED <<chanVars, cfgVars, loopVars, sent, lastDropped, written, driverVars, execVars, codecVars>>

\* the torque-enable write returns; an error makes the call return it
SomEnableDone ==
    /\ appPc = "som_enable" /\ appTx
    /\ appTx' = FALSE
    /\ \/ /\ appPc' = "som_verify"
          /\ somLog' = Resolved(somLog, "ok")
       \/ /\ appPc' = "som_failed"
          /\ somLog' = Resolved(somLog, "err")
    /\ UNCHANGED <<somMode, port, startOk, stops, cancelled, wg>>
    /\ UNCHANGED <<chanVars, cfgVars, loopVars, sent, lastDropped, written, driverVars, execVars, codecVars>>

\* enableTorque's read-back, after the 50 ms delay: the request is written
SomVerify ==
    /\ appPc = "som_verify" /\ ~appTx
    /\ appTx' = TRUE
    /\ somLog' = somLog \o <<SleepStep(VerifyDelayMs), ReadStep(AddrTorqueEnable, 1)>>
    /\ UNCHANGED <<appPc, somMode, port, startOk, stops, cancelled, wg>>
    /\ UNCHANGED <<chanVars, cfgVars, loopVars, sent, lastDropped, written, driverVars, execVars, codecVars>>

\* the read-back returns (its result is only logged) and SetOperatingMode returns nil
SomVerifyDone ==
    /\ appPc = "som_verify" /\ appTx
    /\ appTx' = FALSE
    /\ appPc' = "idle"
    /\ somMode' = 0
    /\ somLog' = << >>
    /\ UNCHANGED <<port, startOk, stops, cancelled, wg>>
    /\ UNCHANGED <<chanVars, cfgVars, loopVars, sent, lastDropped, written, driverVars, execVars, codecVars>>

\* SetOperatingMode returns the error of the write that failed
SomFail ==
    /\ appPc = "som_failed"
    /\ appPc' = "idle"
    /\ somMode' = 0
    /\ somLog' = << >>
    /\ UNCHANGED <<appTx, port, startOk, stops, cancelled, wg>>
    /\ UNCHANGED <<chanVars, cfgVars, loopVars, sent, lastDropped, written, driverVars, execVars, codecVars>>

\* the batch of one command per ID of l, the n-th batch sent
Batch(l, n) == [i \in 1..Len(l) |-> [ID |-> l[i], Value |-> n]]

\* c.CommandChan <- batch: the send goes through when the channel has room
SendCommand ==
    /\ appPc = "idle"
    /\ sent < MaxCmds
    /\ Len(CommandChan) < CommandCap
    /\ \E l \in IdConfigs : CommandChan' = Append(CommandChan, Batch(l, sent + 1))
    /\ sent' = sent + 1
    /\ UNCHANGED <<appPc, appTx, somMode, port, startOk, stops, cancelled, wg>>
    /\ UNCHANGED <<FeedbackChan, cfgVars, loopVars, lastDropped, written, somLog, driverVars, execVars, codecVars>>

\* a listener receives from FeedbackChan
FeedbackRecv ==
    /\ FeedbackChan # << >>
    /\ FeedbackChan' = Tail(FeedbackChan)
    /\ UNCHANGED <<appPc, appTx, somMode, port, startOk, stops, cancelled, wg>>
    /\ UNCHANGED <<CommandChan, cfgVars, loopVars, histVars, driverVars, execVars, codecVars>>

\* Stop: c.cancel(), then c.wg.Wait() begins
StopCancel ==
    /\ appPc \in {"new", "start_failed", "idle", "stopped"}
    /\ stops < MaxStops
    /\ cancelled' = TRUE
    /\ appPc' = "stop_wait"
    /\ UNCHANGED <<appTx, somMode, port, startOk, stops, wg>>
    /\ UNCHANGED <<chanVars, cfgVars, loopVars, histVars, driverVars, execVars, codecVars>>

\* a Stop that does not wait for the loop
StopReturn_NoWait ==
    /\ appPc = "stop_wait"
    /\ appPc' = "stopped"
    /\ stops' = stops + 1
    /\ UNCHANGED <<appTx, somMode, port, startOk, cancelled, wg>>
    /\ UNCHANGED <<chanVars, cfgVars, loopVars, histVars, driverVars, execVars, codecVars>>

\* c.wg.Wait() returns once the counter is zero, and Stop returns
StopReturn ==
    /\ appPc = "stop_wait"
    /\ wg = 0
    /\ appPc' = "stopped"
    /\ stops' = stops + 1
    /\ UNCHANGED <<appTx, somMode, port, startOk, cancelled, wg>>
    /\ UNCHANGED <<chanVars, cfgVars, loopVars, histVars, driverVars, execVars, codecVars>>

(***************************************************************************)
(* controlLoop.  One tick is one pass through the loop body; tick counts   *)
(* the telemetry batches sampled so far; FeedbackChan holds, for each       *)
(* queued batch, the tick it was sampled in.                               *)
(***************************************************************************)
appVars == <<appPc, appTx, somMode, startOk, stops>>

\* select, case <-c.ctx.Done(): return; the deferred c.driver.port.Close() runs
LoopExit ==
    /\ loopPc = "select"
    /\ cancelled
    /\ port' = "closed"
    /\ loopPc' = "closed"
    /\ UNCHANGED <<appVars, cancelled, wg, chanVars, cfgVars, histVars, driverVars, execVars, codecVars>>
    /\ UNCHANGED <<loopTx, cmds, goalAddr, motorIDs, feedbacks, loopErr, tick>>

\* the deferred c.wg.Done() runs last and the goroutine ends
LoopDone ==
    /\ loopPc = "closed"
    /\ wg' = wg - 1
    /\ loopPc' = "done"
    /\ UNCHANGED <<appVars, port, cancelled, chanVars, cfgVars, histVars, driverVars, execVars, codecVars>>
    /\ UNCHANGED <<loopTx, cmds, goalAddr, motorIDs, feedbacks, loopErr, tick>>

\* a loop that writes every batch to the goal-position address
LoopTakeCommands_HardCoded ==
    /\ loopPc = "select"
    /\ tick < MaxTicks
    /\ CommandChan # << >>
    /\ cmds' = Head(CommandChan)
    /\ CommandChan' = Tail(CommandChan)
    /\ goalAddr' = AddrGoalPosition
    /\ written' = << >>
    /\ loopPc' = "dispatch"
    /\ UNCHANGED <<appVars, port, cancelled, wg, FeedbackChan, cfgVars, sent, lastDropped, somLog>>
    /\ UNCHANGED <<loopTx, motorIDs, feedbacks, loopErr, tick, driverVars, execVars, codecVars>>

\* select, case cmds := <-c.CommandChan; then goalAddr := c.getActiveGoalAddr()
LoopTakeCommands ==
    /\ loopPc = "select"
    /\ tick < MaxTicks
    /\ CommandChan # << >>
    /\ cmds' = Head(CommandChan)
    /\ CommandChan' = Tail(CommandChan)
    /\ goalAddr' = activeGoalAddr
    /\ written' = << >>
    /\ loopPc' = "dispatch"
    /\ UNCHANGED <<appVars, port, cancelled, wg, FeedbackChan, cfgVars, sent, lastDropped, somLog>>
    /\ UNCHANGED <<loopTx, motorIDs, feedbacks, loopErr, tick, driverVars, execVars, codecVars>>

\* select, default: taken only when no other case is ready
LoopNoCommands ==
    /\ loopPc = "select"
    /\ tick < MaxTicks
    /\ ~cancelled
    /\ CommandChan = << >>
    /\ loopPc' = "getids"
    /\ UNCHANGED <<appVars, port, cancelled, wg, chanVars, cfgVars, histVars>>
    /\ UNCHANGED <<loopTx, cmds, goalAddr, motorIDs, feedbacks, loopErr, tick, driverVars, execVars, codecVars>>

\* if c.isSyncMode(): SyncWrite4Byte writes one broadcast frame, else one Write4Byte per command
LoopDispatch ==
    /\ loopPc = "dispatch"
    /\ IF useSyncReadWrite
         THEN /\ loopTx' = TRUE
              /\ written' = cmds
              /\ loopPc' = "syncwrite"
         ELSE /\ loopTx' = loopTx
              /\ written' = written
              /\ loopPc' = "write"
    /\ UNCHANGED <<appVars, port, cancelled, wg, chanVars, cfgVars, sent, lastDropped, somLog>>
    /\ UNCHANGED <<cmds, goalAddr, motorIDs, feedbacks, loopErr, tick, driverVars, execVars, codecVars>>

\* SyncWrite4Byte returns, after the frame and its 1 ms gap; an error is only printed
LoopSyncWriteDone ==
    /\ loopPc = "syncwrite" /\ loopTx
    /\ loopTx' = FALSE
    /\ \E e \in BOOLEAN : loopErr' = e
    /\ cmds' = << >>
    /\ goalAddr' = 0
    /\ loopPc' = "getids"
    /\ UNCHANGED <<appVars, port, cancelled, wg, chanVars, cfgVars, histVars>>
    /\ UNCHANGED <<motorIDs, feedbacks, tick, driverVars, execVars, codecVars>>

\* Write4Byte(cmd.ID, goalAddr, cmd.Value) for the next command: the request is written
LoopWrite ==
    /\ loopPc = "write" /\ ~loopTx
    /\ cmds # << >>
    /\ loopTx' = TRUE
    /\ written' = Append(written, Head(cmds))
    /\ UNCHANGED <<appVars, port, cancelled, wg, chanVars, cfgVars, sent, lastDropped, somLog>>
    /\ UNCHANGED <<loopPc, cmds, goalAddr, motorIDs, feedbacks, loopErr, tick, driverVars, execVars, codecVars>>

\* a range loop that leaves after its first command
AfterWrite_SkipRest(c) == "getids"

\* the pc after the write of the head of c, whatever its result
AfterWrite(c) == IF Tail(c) = << >> THEN "getids" ELSE "write"

\* a loop that returns when a command write fails
LoopWriteDone_ExitOnError ==
    /\ loopPc = "write" /\ loopTx
    /\ loopTx' = FALSE
    /\ \E e \in BOOLEAN :
         /\ loopErr' = e
         /\ loopPc' = IF e THEN "done" ELSE AfterWrite(cmds)
    /\ cmds' = Tail(cmds)
    /\ goalAddr' = IF Tail(cmds) = << >> THEN 0 ELSE goalAddr
    /\ UNCHANGED <<appVars, port, cancelled, wg, chanVars, cfgVars, histVars>>
    /\ UNCHANGED <<motorIDs, feedbacks, tick, driverVars, execVars, codecVars>>

\* the Write4Byte returns; an error is only printed and the range loop goes on
LoopWriteDone ==
    /\ loopPc = "write" /\ loopTx
    /\ loopTx' = FALSE
    /\ \E e \in BOOLEAN : loopErr' = e
    /\ cmds' = Tail(cmds)
    /\ goalAddr' = IF Tail(cmds) = << >> THEN 0 ELSE goalAddr
    /\ loopPc' = AfterWrite(cmds)
    /\ UNCHANGED <<appVars, port, cancelled, wg, chanVars, cfgVars, histVars>>
    /\ UNCHANGED <<motorIDs, feedbacks, tick, driverVars, execVars, codecVars>>

\* motorIDs := c.getMotorIDs(); feedbacks := make(..., 0, len(motorIDs))
LoopGetIDs ==
    /\ loopPc = "getids"
    /\ motorIDs' = MotorIDs
    /\ feedbacks' = << >>
    /\ written' = << >>
    /\ loopErr' = FALSE
    /\ loopPc' = "mode"
    /\ UNCHANGED <<appVars, port, cancelled, wg, chanVars, cfgVars, sent, lastDropped, somLog>>
    /\ UNCHANGED <<loopTx, cmds, goalAddr, tick, driverVars, execVars, codecVars>>

\* if c.isSyncMode(): SyncRead4Byte writes its broadcast request, else per-ID reads
LoopReadMode ==
    /\ loopPc = "mode"
    /\ IF useSyncReadWrite
         THEN /\ loopTx' = TRUE
              /\ loopPc' = "syncread"
         ELSE /\ loopTx' = loopTx
              /\ loopPc' = "read"
    /\ UNCHANGED <<appVars, port, cancelled, wg, chanVars, cfgVars, histVars>>
    /\ UNCHANGED <<cmds, goalAddr, motorIDs, feedbacks, loopErr, tick, driverVars, execVars, codecVars>>

\* a sync path that reports only the IDs that answered
SyncFeedbacks_OmitMissing(l, okIds) ==
    SelectSeq([i \in 1..Len(l) |-> [ID |-> l[i], ok |-> TRUE]], LAMBDA f : f.ID \in okIds)

\* the feedback entries of a sync read in which exactly the IDs of okIds answered
SyncFeedbacks(l, okIds) == [i \in 1..Len(l) |-> [ID |-> l[i], ok |-> (l[i] \in okIds)]]

\* the IDs of a list
ListIds(l) == {l[i] : i \in 1..Len(l)}

\* SyncRead4Byte returns: an error marks every ID failed, else the IDs absent
\* from the map are marked failed
LoopSyncReadDone ==
    /\ loopPc = "syncread" /\ loopTx
    /\ loopTx' = FALSE
    /\ \E okIds \in SUBSET ListIds(motorIDs) :
         /\ feedbacks' = SyncFeedbacks(motorIDs, okIds)
         /\ loopErr' = (okIds = {})
    /\ tick' = tick + 1
    /\ loopPc' = "publish"
    /\ UNCHANGED <<appVars, port, cancelled, wg, chanVars, cfgVars, histVars>>
    /\ UNCHANGED <<cmds, goalAddr, motorIDs, driverVars, execVars, codecVars>>

\* Read4Byte(id, AddrPresentPosition) for the next ID: the request is written
LoopRead ==
    /\ loopPc = "read" /\ ~loopTx
    /\ Len(feedbacks) < Len(motorIDs)
    /\ loopTx' = TRUE
    /\ UNCHANGED <<appVars, port, cancelled, wg, chanVars, cfgVars, histVars>>
    /\ UNCHANGED <<loopPc, cmds, goalAddr, motorIDs, feedbacks, loopErr, tick, driverVars, execVars, codecVars>>

\* the Read4Byte returns; the entry carries the value or the error
LoopReadDone ==
    /\ loopPc = "read" /\ loopTx
    /\ loopTx' = FALSE
    /\ \E ok \in BOOLEAN :
         /\ feedbacks' = Append(feedbacks, [ID |-> motorIDs[Len(feedbacks) + 1], ok |-> ok])
         /\ loopErr' = ~ok
    /\ IF Len(feedbacks) + 1 = Len(motorIDs)
         THEN /\ loopPc' = "publish"
              /\ tick' = tick + 1
         ELSE /\ loopPc' = "read"
              /\ tick' = tick
    /\ UNCHANGED <<appVars, port, cancelled, wg, chanVars, cfgVars, histVars>>
    /\ UNCHANGED <<cmds, goalAddr, motorIDs, driverVars, execVars, codecVars>>

\* a publish that makes room by discarding the oldest queued batch
LoopPublish_DropOldest ==
    /\ loopPc = "publish"
    /\ IF Len(FeedbackChan) < FeedbackCap
         THEN /\ FeedbackChan' = Append(FeedbackChan, tick)
              /\ lastDropped' = lastDropped
         ELSE /\ FeedbackChan' = Append(Tail(FeedbackChan), tick)
              /\ lastDropped' = Head(FeedbackChan)
    /\ loopPc' = "select"
    /\ motorIDs' = << >>
    /\ feedbacks' = << >>
    /\ loopErr' = FALSE
    /\ UNCHANGED <<appVars, port, cancelled, wg, CommandChan, cfgVars, sent, written, somLog>>
    /\ UNCHANGED <<loopTx, cmds, goalAddr, tick, driverVars, execVars, codecVars>>

\* select { case c.FeedbackChan <- feedbacks: default: }: a full channel drops the new batch
LoopPublish ==
    /\ loopPc = "publish"
    /\ IF Len(FeedbackChan) < FeedbackCap
         THEN /\ FeedbackChan' = Append(FeedbackChan, tick)
              /\ lastDropped' = lastDropped
         ELSE /\ FeedbackChan' = FeedbackChan
              /\ lastDropped' = tick
    /\ loopPc' = "select"
    /\ motorIDs' = << >>
    /\ feedbacks' = << >>
    /\ loopErr' = FALSE
    /\ UNCHANGED <<appVars, port, cancelled, wg, CommandChan, cfgVars, sent, written, somLog>>
    /\ UNCHANGED <<loopTx, cmds, goalAddr, tick, driverVars, execVars, codecVars>>

\* one step of the control loop before its exit
LoopStep ==
    \/ LoopTakeCommands \/ LoopNoCommands \/ LoopDispatch \/ LoopSyncWriteDone
    \/ LoopWrite \/ LoopWriteDone \/ LoopGetIDs \/ LoopReadMode
    \/ LoopSyncReadDone \/ LoopRead \/ LoopReadDone \/ LoopPublish

\* one step of the application task or of the listener
AppStep ==
    \/ StartOpen \/ StartPing \/ StartPingDone \/ StartTorque \/ StartTorqueDone
    \/ StartVerify \/ StartVerifyDone \/ SetMotorIDs
    \/ SomDisable \/ SomDisableDone \/ SomMode \/ SomModeDone \/ SomUpdate
    \/ SomEnable \/ SomEnableDone \/ SomVerify \/ SomVerifyDone \/ SomFail
    \/ SendCommand \/ FeedbackRecv \/ StopCancel \/ StopReturn

Init == DriverIdle /\ CtlInit /\ ExecIdle /\ CodecIdle

Next == AppStep \/ LoopStep \/ LoopExit \/ LoopDone

Spec == Init /\ [][Next]_vars

\* every driver call of the loop returns and the loop runs on; a select with
\* ctx.Done() ready picks among its ready cases at random, so that case is
\* taken if it is ready again and again; wg.Wait() returns once it can
Fairness ==
    WF_vars(LoopStep) /\ SF_vars(LoopExit) /\ WF_vars(LoopDone) /\ WF_vars(StopReturn)

FairSpec == Init /\ [][Next]_vars /\ Fairness

(***************************************************************************)
(* SetOperatingMode on its own: calls with every mode the switch names and *)
(* one it does not, made one after another once Start has returned.        *)
(***************************************************************************)
ModeChoices ==
    {OpModeCurrent, OpModeVelocity, OpModePosition, OpModeExtendedPosition,
     OpModeCurrentBasedPos, OpModePWM, OpModeVelocity + 1}

\* the controller when Start has returned nil and the loop has not yet taken a step
Started ==
    /\ DriverIdle
    /\ ExecIdle
    /\ CodecIdle
    /\ appPc = "idle"
    /\ appTx = FALSE
    /\ somMode = 0
    /\ port = "open"
    /\ startOk = {"ping", "torque"}
    /\ stops = 0
    /\ cancelled = FALSE
    /\ wg = 1
    /\ CommandChan = << >>
    /\ FeedbackChan = << >>
    /\ activeGoalAddr = AddrGoalPosition
    /\ loopPc = "select"
    /\ loopTx = FALSE
    /\ cmds = << >>
    /\ goalAddr = 0
    /\ motorIDs = << >>
    /\ feedbacks = << >>
    /\ loopErr = FALSE
    /\ tick = 0
    /\ sent = 0
    /\ lastDropped = 0
    /\ written = << >>
    /\ somLog = << >>

\* ... with the motor list NewController set
InitMode ==
    /\ Started
    /\ MotorIDs = <<1>>
    /\ useSyncReadWrite = FALSE

\* SetOperatingMode(id, mode) is called with any mode
SomDisableAnyMode == SomCall(ModeChoices)

NextMode ==
    \/ SomDisableAnyMode \/ SomDisableDone \/ SomMode \/ SomModeDone \/ SomUpdate
    \/ SomEnable \/ SomEnableDone \/ SomVerify \/ SomVerifyDone \/ SomFail

SpecMode == InitMode /\ [][NextMode]_vars

(***************************************************************************)
(* The trajectory executor (trajectory.go): Execute, ExecuteWithContext    *)
(* and ExecuteAsync push the samples of a profile onto CommandChan while   *)
(* the control loop drains it and Stop may cancel the Controller.          *)
(***************************************************************************)
\* most samples in a generated trajectory
MaxPoints == 2
\* most receives the caller of ExecuteAsync makes on the returned channel
MaxRecv == 2

\* numbers beyond TLC's integers are kept in two 16-bit halves: a float64 position
\* is hi * 2^16 + lo + half / 2, a uint32 is hi * 2^16 + lo with hi in 0 .. 2^16 - 1
W16 == 2 ^ 16
Pos(hi, lo, half) == [hi |-> hi, lo |-> lo, half |-> half]
U32(hi, lo) == [hi |-> hi, lo |-> lo]
MaxUint32 == U32(W16 - 1, W16 - 1)

\* sample positions: -100, 2048.5 and 2^32 + 1000
SamplePos == {Pos(-1, W16 - 100, 0), Pos(0, 2048, 1), Pos(W16, 1000, 0)}

PosLeq(a, b) ==
    \/ a.hi < b.hi
    \/ a.hi = b.hi /\ a.lo < b.lo
    \/ a.hi = b.hi /\ a.lo = b.lo /\ a.half <= b.half

\* profile.Generate(rate): one sample when the profile does not move, else samples
\* that run from StartPos to TargetPos without turning back
Generate ==
    {s \in SeqsUpTo(SamplePos, MaxPoints) :
        /\ Len(s) >= 1
        /\ Len(s) > 1 => s[1] # s[Len(s)]
        /\ \/ \A i \in 1..(Len(s) - 1) : PosLeq(s[i], s[i + 1])
           \/ \A i \in 1..(Len(s) - 1) : PosLeq(s[i + 1], s[i])}

\* the integer part of a float64, rounded toward zero
Trunc(p) ==
    IF p.hi < 0 /\ p.half = 1
      THEN IF p.lo + 1 = W16 THEN U32(p.hi + 1, 0) ELSE U32(p.hi, p.lo + 1)
      ELSE U32(p.hi, p.lo)

\* clampToUint32(x): negative -> 0, above the largest uint32 -> the largest, else truncated
clampToUint32(p) ==
    IF p.hi < 0 THEN U32(0, 0)
    ELSE IF p.hi >= W16 THEN MaxUint32
    ELSE Trunc(p)

\* uint32(point.Position): the truncated value when a uint32 can hold it; otherwise
\* the result depends on the implementation, which keeps the low 32 bits of the
\* integer or saturates
Uint32Of(p) ==
    LET t == Trunc(p)
    IN  IF t.hi \in 0..(W16 - 1) THEN {t}
        ELSE {U32(t.hi % W16, t.lo), IF t.hi < 0 THEN U32(0, 0) ELSE MaxUint32}

\* what an executor step leaves alone
exFrame == <<appPc, appTx, somMode, port, startOk, stops, cancelled, wg, FeedbackChan,
             cfgVars, loopVars, histVars, driverVars, codecVars>>

\* the entry of Execute / ExecuteWithContext / ExecuteAsync: points := profile.Generate(rate)
ExecBegin(kind) ==
    /\ exKind = "none"
    /\ exPc = "idle"
    /\ exKind' = kind
    /\ points' \in Generate
    /\ exPc' = "send"
    /\ UNCHANGED <<exI, exRet, errBuf, errClosed, pushed, received, CommandChan, exFrame>>

ExecuteCall == ExecBegin("Execute")

ExecuteWithContextCall == ExecBegin("ExecuteWithContext")

ExecuteAsyncCall == ExecBegin("ExecuteAsync")

\* the command {ID: e.motorID, Value: v} goes onto CommandChan; after the last point
\* the loop over points ends, otherwise the task waits for the ticker
Push(v, last) ==
    /\ CommandChan' = Append(CommandChan, Batch(<<1>>, v))
    /\ pushed' = Append(pushed, v)
    /\ IF exI < Len(points)
         THEN exPc' = "tick" /\ exRet' = exRet
         ELSE exPc' = last /\ exRet' = "nil"

\* an Execute whose send replaces the pending batch instead of waiting for room
ExecuteSend_Overwrite ==
    /\ exKind = "Execute"
    /\ exPc = "send"
    /\ \E v \in Uint32Of(points[exI]) :
         /\ CommandChan' = <<Batch(<<1>>, v)>>
         /\ pushed' = Append(pushed, v)
    /\ IF exI < Len(points)
         THEN exPc' = "tick" /\ exRet' = exRet
         ELSE exPc' = "returned" /\ exRet' = "nil"
    /\ UNCHANGED <<exKind, points, exI, errBuf, errClosed, received, exFrame>>

\* Execute: e.controller.CommandChan <- []Command{...} blocks until the channel has room
ExecuteSend ==
    /\ exKind = "Execute"
    /\ exPc = "send"
    /\ Len(CommandChan) < CommandCap
    /\ \E v \in Uint32Of(points[exI]) : Push(v, "returned")
    /\ UNCHANGED <<exKind, points, exI, errBuf, errClosed, received, exFrame>>

\* <-ticker.C, then the next point
ExecTick ==
    /\ exKind \in {"Execute", "ExecuteAsync"}
    /\ exPc = "tick"
    /\ exI' = exI + 1
    /\ exPc' = "send"
    /\ UNCHANGED <<exKind, points, exRet, errBuf, errClosed, pushed, received, CommandChan, exFrame>>

\* ExecuteAsync's task: select { case CommandChan <- cmd: default: errChan <- "command
\* channel full"; return }
AsyncSend ==
    /\ exKind = "ExecuteAsync"
    /\ exPc = "send"
    /\ IF Len(CommandChan) < CommandCap
         THEN /\ \E v \in Uint32Of(points[exI]) : Push(v, "closing")
              /\ errBuf' = errBuf
         ELSE /\ errBuf' = Append(errBuf, "full")
              /\ exRet' = "full"
              /\ exPc' = "closing"
              /\ UNCHANGED <<CommandChan, pushed>>
    /\ UNCHANGED <<exKind, points, exI, errClosed, received, exFrame>>

\* the deferred close(errChan) as the task ends
AsyncClose ==
    /\ exKind = "ExecuteAsync"
    /\ exPc = "closing"
    /\ errClosed' = TRUE
    /\ exPc' = "returned"
    /\ UNCHANGED <<exKind, points, exI, exRet, errBuf, pushed, received, CommandChan, exFrame>>

\* the caller receives from errChan: a buffered error, or nil once it is closed and empty
AsyncRecv ==
    /\ exKind = "ExecuteAsync"
    /\ Len(received) < MaxRecv
    /\ \/ /\ errBuf # << >>
          /\ received' = Append(received, Head(errBuf))
          /\ errBuf' = Tail(errBuf)
       \/ /\ errBuf = << >>
          /\ errClosed
          /\ received' = Append(received, "closed")
          /\ errBuf' = errBuf
    /\ UNCHANGED <<exKind, exPc, points, exI, exRet, errClosed, pushed, CommandChan, exFrame>>

\* ExecuteWithContext: select { case <-ctx.Done(): ...; case CommandChan <- cmd: }, the
\* send case
EwcSend ==
    /\ exKind = "ExecuteWithContext"
    /\ exPc = "send"
    /\ Len(CommandChan) < CommandCap
    /\ Push(clampToUint32(points[exI]), "returned")
    /\ UNCHANGED <<exKind, points, exI, errBuf, errClosed, received, exFrame>>

\* ExecuteWithContext: select { case <-ctx.Done(): ...; case <-ticker.C: }, the ticker case
EwcTick ==
    /\ exKind = "ExecuteWithContext"
    /\ exPc = "tick"
    /\ exI' = exI + 1
    /\ exPc' = "send"
    /\ UNCHANGED <<exKind, points, exRet, errBuf, errClosed, pushed, received, CommandChan, exFrame>>

\* an ExecuteWithContext that reports success when its context is cancelled
EwcCancel_ReturnNil ==
    /\ exKind = "ExecuteWithContext"
    /\ exPc \in {"send", "tick"}
    /\ cancelled
    /\ exRet' = "nil"
    /\ exPc' = "returned"
    /\ UNCHANGED <<exKind, points, exI, errBuf, errClosed, pushed, received, CommandChan, exFrame>>

\* ExecuteWithContext: case <-ctx.Done(): return ctx.Err(), in either select
EwcCancel ==
    /\ exKind = "ExecuteWithContext"
    /\ exPc \in {"send", "tick"}
    /\ cancelled
    /\ exRet' = "Canceled"
    /\ exPc' = "returned"
    /\ UNCHANGED <<exKind, points, exI, errBuf, errClosed, pushed, received, CommandChan, exFrame>>

\* one step of a running executor task
ExecRun ==
    \/ ExecuteSend \/ ExecTick \/ AsyncSend \/ AsyncClose
    \/ EwcSend \/ EwcTick \/ EwcCancel

\* one step of the executor task or of its caller
ExecStep ==
    \/ ExecuteCall \/ ExecuteWithContextCall \/ ExecuteAsyncCall
    \/ AsyncRecv \/ ExecRun

\* the executor runs on a started Controller whose motor list is the one NewController
\* set or one SetMotorIDs set before Start
InitExec ==
    /\ Started
    /\ \E l \in IdConfigs :
         /\ MotorIDs = l
         /\ useSyncReadWrite = (Len(l) > 1)

NextExec ==
    ExecStep \/ StopCancel \/ StopReturn \/ LoopStep \/ LoopExit \/ LoopDone

SpecExec == InitExec /\ [][NextExec]_vars

\* a running executor task takes its next step when it can (a send with room in the
\* channel, a ticker tick, a ready select case); the loop and Stop as in FairSpec
FairSpecExec == SpecExec /\ Fairness /\ WF_vars(ExecRun)

(***************************************************************************)
(* The wire codec called on its own: StuffParams then DestuffParams, or    *)
(* BuildPacket, on params that are the bytes cParams followed by cZeros    *)
(* zero bytes.                                                             *)
(***************************************************************************)
\* longest params the codec is called with byte by byte
MaxParams == 5

\* 0xFF and 0xFD, which the stuffing looks for, and one other byte
ParamBytes == {0, 253, 255}

\* lengths of long params: one that makes a status packet of 2^16 bytes, the longest
\* whose length field in an instruction packet fits 16 bits, and one more
LongLens == {W16 - 11, W16 - 4, W16 - 3}

BuildIds == {1, BroadcastID}

BuildInsts == {InstRead, InstSyncWrite}

\* the number of stuffed bytes of cParams
StuffedLen0 == Len(StuffParams(cParams))

\* what a codec step leaves alone
codecFrame == <<driverVars, ctlVars, execVars, crcVars>>

InitCodec ==
    /\ DriverIdle
    /\ CtlInit
    /\ ExecIdle
    /\ cPc = "new"
    /\ \/ cParams \in SeqsUpTo(ParamBytes, MaxParams) /\ cZeros = 0
       \/ cParams \in SeqsUpTo(ParamBytes, 1) /\ cZeros \in LongLens
    /\ cStuffed = << >>
    /\ cOut = << >>
    /\ cId = 0
    /\ cInst = 0
    /\ cHead = << >>
    /\ cTotal = 0
    /\ cPkt = << >>
    /\ ParseIdle
    /\ CrcIdle

\* the ping packet for ID 1 without its CRC
PingHead == <<255, 255, 253, 0, 1, 3, 0, 1>>

\* the crcStart arguments: a fresh CRC and one carried over
CrcStarts == {0, 19993}

\* UpdateCRC(crcStart, data), on cParams alone or behind the ping packet's head
CrcCall ==
    /\ cPc = "new"
    /\ cZeros = 0
    /\ \E start \in CrcStarts, d \in {cParams, PingHead \o cParams} :
         /\ crcIn' = [start |-> start, data |-> d]
         /\ crcOut' = UpdateCRC(start, d)
    /\ cPc' = "crc"
    /\ UNCHANGED <<cParams, cZeros, cStuffed, cOut, cId, cInst, cHead, cTotal, cPkt, parseVars,
                   driverVars, ctlVars, execVars>>

\* stuffed := StuffParams(params)
StuffCall ==
    /\ cPc = "new"
    /\ cZeros = 0
    /\ cStuffed' = StuffParams(cParams)
    /\ cPc' = "stuffed"
    /\ UNCHANGED <<cParams, cZeros, cOut, cId, cInst, cHead, cTotal, cPkt, parseVars, codecFrame>>

\* DestuffParams(stuffed)
DestuffCall ==
    /\ cPc = "stuffed"
    /\ cOut' = DestuffParams(cStuffed)
    /\ cPc' = "destuffed"
    /\ UNCHANGED <<cParams, cZeros, cStuffed, cId, cInst, cHead, cTotal, cPkt, parseVars, codecFrame>>

\* BuildPacket(id, inst, params), built byte by byte
BuildCall ==
    /\ cPc = "new"
    /\ cZeros = 0
    /\ \E id \in BuildIds, inst \in BuildInsts :
         /\ cId' = id
         /\ cInst' = inst
         /\ cPkt' = BuildPacket(id, inst, cParams)
    /\ cHead' = SubSeq(cPkt', 1, 8)
    /\ cTotal' = Len(cPkt')
    /\ cPc' = "built"
    /\ UNCHANGED <<cParams, cZeros, cStuffed, cOut, parseVars, codecFrame>>

\* BuildPacket(id, inst, params) on long params: the zero bytes that end params are
\* not stuffed and change no stuffing before them, so the packet is PacketHead, the
\* stuffed cParams, cZeros zero bytes and two CRC bytes; only its head and length
\* are kept
BuildLongCall ==
    /\ cPc = "new"
    /\ cZeros > 0
    /\ \E id \in BuildIds, inst \in BuildInsts :
         /\ cId' = id
         /\ cInst' = inst
         /\ cHead' = PacketHead(id, inst, Len(StuffParams(cParams)) + cZeros)
    /\ cTotal' = 8 + Len(StuffParams(cParams)) + cZeros + 2
    /\ cPc' = "built"
    /\ UNCHANGED <<cParams, cZeros, cStuffed, cOut, cPkt, parseVars, codecFrame>>

\* ids and error bytes of status packets: no error, an error number, the alert bit
StatusIds == {1, 2}

ErrBytes == {0, 1, 128}

\* longest params of a status packet that is damaged before it is parsed
MaxDamaged == 1

\* w cut to its first d.k bytes (one zero byte more than w when d.k is Len(w) + 1),
\* then its byte d.i, counted from 1, replaced by d.v when d.i is not 0
Damaged(w, d) ==
    LET t == IF d.k > Len(w) THEN Append(w, 0) ELSE SubSeq(w, 1, d.k)
    IN  [j \in 1..d.k |-> IF j = d.i THEN d.v ELSE t[j]]

\* the ways to damage w: at least one of a cut, an extra byte and a changed byte
Damages(w) ==
    {d \in [k : 0..(Len(w) + 1), i : 0..Len(w), v : {0, 255}] :
        /\ d.i <= d.k
        /\ d.i > 0 => w[d.i] # d.v
        /\ d.k # Len(w) \/ d.i > 0}

\* ParsePacket on the status packet a servo answers with the params stuffed
ParseStatusCall ==
    /\ cPc = "new"
    /\ cZeros = 0
    /\ \E id \in StatusIds, e \in ErrBytes :
         /\ pSrc' = [kind |-> "status", id |-> id, e |-> e]
         /\ pPkt' = buildStatusPacket(id, e, StuffParams(cParams))
    /\ pTotal' = Len(pPkt')
    /\ pRes' = ParsePacket(pPkt')
    /\ cPc' = "parsed"
    /\ UNCHANGED <<cParams, cZeros, cStuffed, cOut, cId, cInst, cHead, cTotal, cPkt, codecFrame>>

\* ParsePacket on a long status packet: its length check reads len(packet) and the
\* first seven bytes, and with 7 + LEN at 2^16 or more the uint16 sum length + 7 is
\* at most 6, so the check fails before any later byte is read
ParseLongCall ==
    /\ cPc = "new"
    /\ cZeros > 0
    /\ 7 + (2 + StuffedLen0 + cZeros + 2) >= W16
    /\ 2 + StuffedLen0 + cZeros + 2 < W16
    /\ \E id \in StatusIds, e \in ErrBytes :
         /\ pSrc' = [kind |-> "status", id |-> id, e |-> e]
         /\ pPkt' = StatusHead(id, e, StuffedLen0 + cZeros)
    /\ pTotal' = 9 + StuffedLen0 + cZeros + 2
    /\ pRes' = NoParse(ParseFrame(pPkt', pTotal'))
    /\ cPc' = "parsed"
    /\ UNCHANGED <<cParams, cZeros, cStuffed, cOut, cId, cInst, cHead, cTotal, cPkt, codecFrame>>

\* ParsePacket on a status packet that was cut, got a byte more or had a byte changed
ParseDamagedCall ==
    /\ cPc = "new"
    /\ cZeros = 0
    /\ Len(cParams) <= MaxDamaged
    /\ \E id \in StatusIds, e \in ErrBytes :
         LET w == buildStatusPacket(id, e, StuffParams(cParams))
         IN  \E d \in Damages(w) :
               /\ pSrc' = [kind |-> "damaged", id |-> id, e |-> e, len |-> Len(w),
                           k |-> d.k, i |-> d.i]
               /\ pPkt' = Damaged(w, d)
    /\ pTotal' = Len(pPkt')
    /\ pRes' = ParsePacket(pPkt')
    /\ cPc' = "parsed"
    /\ UNCHANGED <<cParams, cZeros, cStuffed, cOut, cId, cInst, cHead, cTotal, cPkt, codecFrame>>

\* ParsePacket on an instruction packet that came back on the half-duplex bus
ParseEchoCall ==
    /\ cPc = "new"
    /\ cZeros = 0
    /\ \E id \in BuildIds, inst \in BuildInsts :
         /\ pSrc' = [kind |-> "echo", id |-> id, inst |-> inst]
         /\ pPkt' = BuildPacket(id, inst, cParams)
    /\ pTotal' = Len(pPkt')
    /\ pRes' = ParsePacket(pPkt')
    /\ cPc' = "parsed"
    /\ UNCHANGED <<cParams, cZeros, cStuffed, cOut, cId, cInst, cHead, cTotal, cPkt, codecFrame>>

NextCodec ==
    \/ StuffCall \/ DestuffCall \/ BuildCall \/ BuildLongCall
    \/ ParseStatusCall \/ ParseLongCall \/ ParseDamagedCall \/ ParseEchoCall
    \/ CrcCall

SpecCodec == InitCodec /\ [][NextCodec]_vars

(***************************************************************************)
(* Properties of the driver (checked under SpecDriver).                    *)
(***************************************************************************)
\* the bytes FF FF FD occur in g
HasHeader(g) ==
    \E i \in 1..(Len(g) - 2) : g[i] = 255 /\ g[i + 1] = 255 /\ g[i + 2] = 253

\* a logged readPacketWithTimeout outcome that makes its caller record or return an error
ReadFailed(out) ==
    \/ out.kind # "pkt"
    \/ out.parsed.err # "nil"
    \/ out.parsed.errCode # 0

SyncCall == op = "SyncRead4Byte"
SingleDone == op \in {"Read", "Write", "Ping"} /\ dpc = "done" /\ portTx # << >>

\* C2: the bytes that follow the returned packet in the received stream are kept for
\* the next readPacketWithTimeout call: as long as the earlier calls returned packets,
\* call i returns the i-th packet the servos sent and times out only while bytes are
\* still to arrive; so SyncRead of [1, 2] whose two answers arrive in one chunk
\* yields the data of both IDs.
C2_TrailingBytesKept ==
    SyncCall =>
      /\ \A i \in 1..Len(rxLog) :
           (i <= Len(wirePkts) /\ \A j \in 1..(i - 1) : rxLog[j].kind = "pkt") =>
             /\ rxLog[i].kind = "pkt" => rxLog[i].pkt = wirePkts[i]
             /\ rxLog[i].kind = "timeout" => rxLog[i].left > 0
      /\ ( /\ dpc = "done"
           /\ ids = <<1, 2>>
           /\ wirePkts = <<buildStatusPacket(1, 0, Pos2048), buildStatusPacket(2, 0, Pos4096)>>
           /\ Len(rxLog) = 2
           /\ rxLog[1].kind = "pkt" /\ rxLog[1].left = 0
           /\ rxLog[2].kind # "ioerr" )
         => (results[1].Data = Pos2048 /\ results[2].Data = Pos4096)

\* what C3 says of a finished Read / Write / Ping whose port write succeeded
ResyncOutcome ==
    LET out == rxLog[1]
        a == CHOOSE x \in AnswerSpecs : AnswerPacket[x] = wirePkts[1]
    IN  /\ out.kind = "pkt" =>
             /\ out.pkt = wirePkts[1]
             /\ a.errCode = 0 =>
                  /\ ret.err = "nil"
                  /\ op = "Read" => ret.data = a.params
                  /\ op = "Ping" => ret.modelNum =
                       (IF Len(a.params) >= 3 THEN a.params[1] + 256 * a.params[2] ELSE 0)
        /\ out.kind = "timeout" => out.left > 0

\* C3 (as stated): for any garbage in front of a valid status packet, in any chunking,
\* the read loop returns exactly that packet (it fails only on an I/O error or while
\* bytes are still to arrive), and Read / Write / Ping succeed with its payload.
C3_ResyncAnyGarbage == SingleDone => ResyncOutcome

\* C3 (amended): the same for garbage that does not contain the bytes FF FF FD.
C3_ResyncHeaderFreeGarbage == (SingleDone /\ ~HasHeader(garbage)) => ResyncOutcome

\* a Read behind garbage that ends in a partial header has returned the payload
C3_Witness ==
    /\ SingleDone /\ op = "Read"
    /\ garbage = <<0, 255, 255>>
    /\ rxLog[1].kind = "pkt"
    /\ ret.err = "nil" /\ ret.data = Pos2048

\* C4: after a successful broadcast write SyncRead holds len(ids) results with
\* results[i].ID = ids[i] once ID i has been read; the outcome of the read for ids[k]
\* is recorded in results[k] and nowhere else, and when SyncRead returns every ID of
\* the list has had its read.
C4_PerIdOutcomes ==
    (SyncCall /\ portTx # << >> /\ dpc \in {"reading", "done"}) =>
      LET n == IF dpc = "done" THEN Len(ids) ELSE idx - 1 IN
      /\ Len(results) = Len(ids)
      /\ Len(rxLog) = n
      /\ \A i \in 1..n :
           /\ results[i].ID = ids[i]
           /\ (results[i].Err # "nil") <=> ReadFailed(rxLog[i])
           /\ results[i].Err = "nil" => results[i].Data = rxLog[i].parsed.params
      /\ \A i \in (n + 1)..Len(ids) : results[i] = [ID |-> 0, Data |-> << >>, Err |-> "nil"]

\* the first ID failed, the second was still read and answered
C4_Witness ==
    /\ SyncCall /\ dpc = "done" /\ ids = <<1, 2>> /\ portTx # << >>
    /\ results[1].Err # "nil"
    /\ results[2].Err = "nil" /\ results[2].Data = Pos4096

\* the reads of a finished SyncRead4Byte that were error-free with a 4-byte payload
OkReads ==
    {i \in 1..Len(rxLog) :
       ~ReadFailed(rxLog[i]) /\ Len(rxLog[i].parsed.params) = 4}

\* C5: SyncRead4Byte returns an error exactly when the broadcast write failed or every
\* listed ID failed; otherwise it returns the map of exactly the IDs whose response was
\* error-free with a 4-byte payload, each with the little-endian value of its (last)
\* payload.
C5_PartialResults ==
    (SyncCall /\ dpc = "done") =>
      /\ (ret.err # "nil") <=> ((Len(ids) > 0 /\ portTx = << >>) \/ OkReads = {})
      /\ ret.err # "nil" => ret.values = << >>
      /\ ret.err = "nil" =>
           /\ DOMAIN ret.values = {ids[i] : i \in OkReads}
           /\ \A i \in OkReads :
                (\A j \in OkReads : j > i => ids[j] # ids[i]) =>
                  ret.values[ids[i]] = Uint32LE(rxLog[i].parsed.params)

\* ID 1 answered and ID 2 did not: the partial map, no error
C5_Witness ==
    /\ SyncCall /\ dpc = "done" /\ ids = <<1, 2>>
    /\ ret.err = "nil"
    /\ DOMAIN ret.values = {1} /\ ret.values[1] = 2048
    /\ rxLog[2].kind = "timeout"

(***************************************************************************)
(* Properties of the controller (checked under Spec and FairSpec).         *)
(***************************************************************************)
SomPcs == {"som_disable", "som_mode", "som_sleep", "som_enable", "som_verify", "som_failed"}
LoopGone == loopPc \in {"none", "done"}
MidTick == {"dispatch", "syncwrite", "write", "getids", "mode", "syncread", "read", "publish"}
StartChecksOk == {"ping", "torque"} \subseteq startOk

\* C1: no two tasks are inside a port transaction at the same time, and for the whole
\* duration of a SetOperatingMode call made after Start the control loop is not inside
\* a port transaction.
C1_NoConcurrentPortIO ==
    /\ ~(appTx /\ loopTx)
    /\ appPc \in SomPcs => ~loopTx

\* C6: Stop has returned only when the loop has exited and closed the port; once
\* cancellation is signalled the loop eventually exits and every Stop returns; after
\* the first Stop has returned, further calls change nothing of the controller.
C6_StopJoinsLoop ==
    /\ [](stops > 0 => (LoopGone /\ wg = 0 /\ (loopPc = "done" => port = "closed")))
    /\ (cancelled ~> LoopGone)
    /\ ((appPc = "stop_wait") ~> (appPc = "stopped"))
    /\ [][stops > 0 => UNCHANGED <<cancelled, wg, port, loopVars, CommandChan, cfgVars>>]_vars

\* a second Stop has returned after the loop exited and closed the port
C6_Witness == stops = 2 /\ appPc = "stopped" /\ loopPc = "done" /\ port = "closed"

C8_LoopEndsOnlyOnCancel ==
    /\ [][(loopPc \in MidTick \cup {"select"} /\ loopPc' \notin MidTick \cup {"select"})
            => (loopPc = "select" /\ cancelled)]_vars
    /\ [][(loopTx /\ ~loopTx' /\ loopErr') =>
            loopPc' \in {"write", "getids", "read", "publish"}]_vars
    /\ [](loopPc \in MidTick => ENABLED LoopStep)
    /\ []((loopPc = "select" /\ ~cancelled /\ tick < MaxTicks) => ENABLED LoopStep)

\* a command write of the second tick failed and the loop is at its telemetry read
C8_Witness == loopPc = "getids" /\ loopErr /\ tick >= 1 /\ ~cancelled

C10_NoStaleBatchAfterDrop ==
    /\ [](\A i, j \in 1..Len(FeedbackChan) : i < j => FeedbackChan[i] < FeedbackChan[j])
    /\ [][(FeedbackChan # << >> /\ FeedbackChan' = Tail(FeedbackChan)) =>
            Head(FeedbackChan) > lastDropped]_vars

\* C11: the I/O path of a tick matches the ID list the loop uses in that tick:
\* individual reads when the list has one ID, a sync read when it has more.
C11_PathMatchesIdList ==
    /\ loopPc = "read" => Len(motorIDs) = 1
    /\ loopPc = "syncread" => Len(motorIDs) > 1

\* the commands of the running tick that are still to be handed to the driver
Pending == IF loopPc = "write" /\ loopTx THEN Tail(cmds) ELSE cmds
ReadPhase == {"getids", "mode", "read", "syncread", "publish"}

\* C12: a tick starts its write phase with the batch it took and nothing written; each
\* individual write hands the driver the first command not yet written; the sync write
\* hands it the whole batch; and from getMotorIDs on, through every telemetry read of
\* the tick, no command of the batch is left.
C12_DispatchBeforeRead ==
    /\ [](loopPc \in ReadPhase => cmds = << >>)
    /\ [][(loopPc = "select" /\ loopPc' = "dispatch") =>
            (cmds' = Head(CommandChan) /\ written' = << >>)]_vars
    /\ [][(loopPc \in {"dispatch", "write"} /\ loopPc' \in {"write", "getids"}) =>
            written' \o Pending' = written \o Pending]_vars
    /\ [][(loopPc = "dispatch" /\ loopPc' = "syncwrite") => written' = cmds]_vars

\* both commands of a two-command batch have been written, in list order
C12_Witness ==
    loopPc = "write" /\ loopTx /\ Len(cmds) = 1 /\ written = Batch(<<1, 2>>, 1)

\* the first five steps of SetOperatingMode(id, mode) as the claim lists them
SomSteps(mode) ==
    <<[op |-> "write", addr |-> AddrTorqueEnable, data |-> 0],
      [op |-> "write", addr |-> AddrOperatingMode, data |-> mode],
      [op |-> "sleep", addr |-> 0, data |-> 1000],
      [op |-> "goaladdr", addr |-> activeGoalAddr, data |-> 0],
      [op |-> "write", addr |-> AddrTorqueEnable, data |-> 1]>>

\* C13: what a SetOperatingMode call has done so far is a prefix of: write 0 to
\* torque_enable, write mode to operating_mode, sleep of at least 1000 ms, update of the
\* active goal address, write 1 to torque_enable; every step but the last follows
\* writes that succeeded, and a write that failed is the last step of the call.
C13_ModeChangeOrder ==
    appPc \in SomPcs =>
      LET n == Len(somLog) IN
      /\ n >= 1
      /\ \A i \in 1..Min(n, 5) :
           /\ somLog[i].op = SomSteps(somMode)[i].op
           /\ somLog[i].addr = SomSteps(somMode)[i].addr
           /\ IF somLog[i].op = "sleep"
                THEN somLog[i].data >= SomSteps(somMode)[i].data
                ELSE somLog[i].data = SomSteps(somMode)[i].data
      /\ \A i \in 1..(n - 1) : somLog[i].res = "ok"
      /\ (appPc = "som_failed") <=> (somLog[n].res = "err")
      /\ appPc = "som_failed" => n \in {1, 2, 5}

\* all five steps of a mode change to velocity have been performed
C13_Witness ==
    /\ appPc = "som_verify" /\ somMode = OpModeVelocity
    /\ Len(somLog) = 5 /\ somLog[5].res = "ok"

\* the goal address the claim gives for a mode
ClaimedGoalAddr(mode) ==
    CASE mode = 1 -> AddrGoalVelocity
      [] mode = 16 -> AddrGoalPWM
      [] mode \in {3, 4, 5} -> AddrGoalPosition
      [] mode = 0 -> AddrGoalPosition

\* C14: once SetOperatingMode(id, mode) has updated the active goal address, and so
\* when it returns nil, the address is goal_velocity for mode 1, goal_pwm for 16,
\* goal_position for 3, 4, 5 and for 0.
C14_GoalAddrOfMode ==
    (appPc \in {"som_enable", "som_verify"} /\ somMode \in {0, 1, 3, 4, 5, 16}) =>
      activeGoalAddr = ClaimedGoalAddr(somMode)

\* a call with mode PWM made in velocity mode is about to return nil
C14_Witness ==
    /\ appPc = "som_verify" /\ appTx /\ somMode = OpModePWM
    /\ activeGoalAddr = AddrGoalPWM
    /\ somLog[4] = GoalAddrStep(AddrGoalPWM)

(***************************************************************************)
(* Properties of the trajectory executor (checked under SpecExec and       *)
(* FairSpecExec).                                                          *)
(***************************************************************************)
EwcReturned == exKind = "ExecuteWithContext" /\ exPc = "returned"

ReceivedErrors == SelectSeq(received, LAMBDA r : r # "closed")

\* C16: the channel ExecuteAsync returns delivers the final outcome exactly once (at
\* most one error, received before the close, then only the close), and the task
\* pushes no command once the Controller's context is cancelled
C16_AsyncHonorsCancel ==
    /\ [](exKind = "ExecuteAsync" =>
            /\ Len(errBuf) + Len(ReceivedErrors) <= 1
            /\ \A i \in 1..Len(received) : received[i] # "closed" => i = 1
            /\ errClosed <=> exPc = "returned")
    /\ [][(exKind = "ExecuteAsync" /\ cancelled) => pushed' = pushed]_vars

\* C17: once the Controller is cancelled, a running Execute, ExecuteWithContext or
\* ExecuteAsync eventually returns
C17_ExecutorReturnsAfterCancel ==
    [](cancelled /\ exKind # "none" => <>(exPc = "returned"))

\* C18: Execute has pushed, in order, the clamped positions of the samples up to the
\* one at hand, one per sample, is at the sample after those it pushed while it waits
\* for the ticker, and has returned nil only with every sample pushed
C18_ExecutePushesClampedSamples ==
    exKind = "Execute" =>
        /\ Len(pushed) = (IF exPc = "send" THEN exI - 1 ELSE exI)
        /\ Len(pushed) <= Len(points)
        /\ \A i \in 1..Len(pushed) : pushed[i] = clampToUint32(points[i])
        /\ exPc = "returned" => exRet = "nil" /\ Len(pushed) = Len(points)

(***************************************************************************)
(* Properties of the wire codec (checked under SpecCodec).                 *)
(***************************************************************************)
\* C19: for every byte string x, DestuffParams(StuffParams(x)) = x
C19_StuffDestuffRoundTrip == cPc = "destuffed" => cOut = cParams

\* a string with FF FF FD in it went through both: a byte was inserted and removed again
C19_Witness ==
    /\ cPc = "destuffed"
    /\ cParams = <<0, 255, 255, 253>>
    /\ cStuffed = <<0, 255, 255, 253, 253>>
    /\ cOut = cParams

\* the number of stuffed parameter bytes of the params passed to BuildPacket
StuffedLen == Len(StuffParams(cParams)) + cZeros

\* C20: the packet BuildPacket returns starts FF FF FD 00, has id at offset 4 and inst
\* at offset 7, its little-endian LEN field at offsets 5-6 is 1 + len(StuffParams(params))
\* + 2, its length is 7 + LEN, and its last two bytes are the little-endian CRC-16 of
\* the bytes before them
C20_BuildPacketLayout ==
    cPc = "built" =>
        /\ SubSeq(cHead, 1, 4) = <<255, 255, 253, 0>>
        /\ cHead[5] = cId
        /\ cHead[8] = cInst
        /\ Uint16LE(SubSeq(cHead, 6, 7)) = 1 + StuffedLen + 2
        /\ cTotal = 7 + Uint16LE(SubSeq(cHead, 6, 7))
        /\ cZeros = 0 =>
              LET crc == UpdateCRC(0, SubSeq(cPkt, 1, cTotal - 2))
              IN  /\ Len(cPkt) = cTotal
                  /\ cPkt[cTotal - 1] = crc % 256
                  /\ cPkt[cTotal] = crc \div 256

\* C21: ParsePacket of the well-formed status packet of (id, e, p), with p stuffed,
\* returns id, e and p without error
C21_ParseStatusRoundTrip ==
    (cPc = "parsed" /\ pSrc.kind = "status") =>
        /\ pRes.err = "nil"
        /\ pRes.id = pSrc.id
        /\ pRes.errCode = pSrc.e
        /\ cZeros = 0 => pRes.params = cParams

\* the error the damage done to a status packet calls for: the first that applies of
\* too short (fewer than 11 bytes left), invalid header (one of the first three bytes
\* changed), length mismatch (bytes cut or added, or a byte of LEN changed) and CRC
\* error (any other byte changed)
DamageError ==
    IF pSrc.k < 11 THEN "packet too short"
    ELSE IF pSrc.i \in 1..3 THEN "invalid header"
    ELSE IF pSrc.k # pSrc.len \/ pSrc.i \in {6, 7} THEN "length mismatch"
    ELSE "CRC error"

\* C22: ParsePacket returns, with no id and no params, the error of the first check
\* that fails, in the order too short, invalid header, length mismatch, CRC error
C22_ParseErrorsInOrder ==
    (cPc = "parsed" /\ pSrc.kind = "damaged") => pRes = NoParse(DamageError)

\* a packet with a bad header that is also a byte short is reported as invalid header
C22_Witness ==
    /\ cPc = "parsed"
    /\ pSrc.kind = "damaged"
    /\ pSrc.len = 12 /\ pSrc.k = 11 /\ pSrc.i = 2
    /\ pRes.err = "invalid header"

\* C23: ParsePacket rejects as not a status packet every packet with a valid header,
\* length and CRC whose instruction byte is not 0x55, such as an echoed instruction
\* packet
C23_NotStatusRejected ==
    (cPc = "parsed" /\ pSrc.kind = "echo" /\ pSrc.inst # InstStatus /\ pTotal >= 11) =>
        pRes.err = "not status"

\* C24: BuildPacket fails and returns no packet when 1 + len(StuffParams(params)) + 2
\* exceeds 65535
C24_BuildRejectsLongParams ==
    (cPc = "built" /\ 1 + StuffedLen + 2 >= W16) =>
        (cHead = << >> /\ cTotal = 0 /\ cPkt = << >>)

\* what the one readPacketWithTimeout call of a finished Read / Write / Ping returned
LastRead == rxLog[Len(rxLog)]

\* C25: a Read, Write or Ping whose request went out returns the error that carries
\* the code whenever the status packet parses with a non-zero error byte, the alert
\* bit 0x80 alone included, and returns success exactly when the packet parses and
\* its error byte is 0
C25_StatusErrorByteFails ==
    SingleDone =>
        /\ Len(rxLog) = 1
        /\ (LastRead.kind = "pkt" /\ LastRead.parsed.err = "nil" /\ LastRead.parsed.errCode # 0)
             => (ret.err = "dxl error code" /\ ret.code = LastRead.parsed.errCode)
        /\ ret.err = "nil" <=> ~ReadFailed(LastRead)

\* a Ping answered with the alert bit alone has failed with code 0x80
C25_Witness ==
    /\ SingleDone
    /\ op = "Ping"
    /\ LastRead.kind = "pkt"
    /\ LastRead.parsed.errCode = 128
    /\ ret.err = "dxl error code"
    /\ ret.code = 128

\* C26: SyncWrite returns an error and writes nothing when the motor list is empty or
\* when any entry's data length differs from dataLength, whichever entry it is; so does
\* SyncRead for an empty ID list
BadMotors ==
    Len(motors) = 0 \/ \E i \in 1..Len(motors) : Len(motors[i].Data) # dataLength
C26_SyncValidatesBeforeWrite ==
    /\ (op = "SyncWrite" /\ dpc = "done" /\ BadMotors)
           => (ret.err \in {"no motors provided", "data length mismatch"} /\ portTx = << >>)
    /\ (op = "SyncWrite" /\ dpc = "done" /\ ~BadMotors)
           => (ret.err \in {"nil", "sync write failed"} /\ (ret.err = "nil" <=> portTx # << >>))
    /\ (op = "SyncRead4Byte" /\ dpc = "done" /\ ids = << >>)
           => (ret.err = "no motor IDs provided" /\ portTx = << >>)
C26_Witness ==
    /\ op = "SyncWrite" /\ dpc = "done" /\ dataLength = 4 /\ Len(motors) = 2
    /\ Len(motors[1].Data) = 4 /\ Len(motors[2].Data) = 2
    /\ ret.err = "data length mismatch" /\ portTx = << >>
\* C27: readPacketWithTimeout always terminates; when no complete packet has arrived
\* before the deadline it fails with the read timeout and returns no packet, so Read and
\* Ping fail when the servo does not answer; and a call that times out returns when its
\* own Timeout has elapsed, so a shorter Timeout fails no later than a longer one
CompleteBeforeDeadline == tWire # << >> /\ tAt[2] < tmo
TimedOut == tPc = "done" /\ tOut.kind = "timeout"
ReadTimeoutSafe ==
    /\ (tPc = "done" /\ tOut.kind \notin {"none", "ioerr"} /\ ~CompleteBeforeDeadline)
           => (tOut = [kind |-> "timeout", pkt |-> << >>] /\ tRet.err = "timeout")
    /\ (tPc = "done" /\ tOut.kind = "pkt") => tOut.pkt = tWire
    /\ (tPc = "done" /\ tWire = << >>) => tRet.err # "nil"
    /\ TimedOut => tEnd = tmo
C27_ReadPacketTerminates == []ReadTimeoutSafe /\ <>(tPc = "done")
C27_Witness ==
    /\ TimedOut /\ tmo = 1 /\ tWire # << >> /\ tCut = MinHeaderSize /\ tAt = <<0, 1>>
    /\ tRx = MinHeaderSize /\ tRet.err = "timeout" /\ tEnd = 1
\* C28: clampToUint32 gives 0 for a negative position, 2^32 - 1 for one above 2^32 - 1
\* and the truncated integer otherwise, and every value an executor (Execute,
\* ExecuteWithContext, ExecuteAsync) has sent is the clamped position of its sample, so
\* that none has wrapped around modulo 2^32
C28_ExecutorSendsClamped ==
    /\ clampToUint32(Pos(-1, W16 - 100, 0)) = U32(0, 0)
    /\ clampToUint32(Pos(W16, 1000, 0)) = MaxUint32
    /\ clampToUint32(Pos(0, 2048, 1)) = U32(0, 2048)
    /\ \A i \in 1..Len(pushed) :
          /\ pushed[i] = clampToUint32(points[i])
          /\ points[i].hi < 0 => pushed[i] = U32(0, 0)
          /\ points[i].hi >= W16 => pushed[i] = MaxUint32
(***************************************************************************)
(* Properties of the trapezoidal profile (checked under SpecProfile and    *)
(* SpecProfileFloat).                                                      *)
(***************************************************************************)
\* the time of sample i = k - 1 before it is clamped: i / rate, as i * dt with dt = 1 / rate
StepTime(k) == FMul(Rnd(RInt(k - 1)), FDiv(RInt(1), sampleRate))
Last == traj[Len(traj)]
\* C29: Generate(rate) returns ceil(T * rate) + 1 samples whose times are i / rate
\* clamped to T and never decrease, the first at the start position and the last at
\* exactly the target position, at time T with zero velocity; a profile that does not
\* move gives exactly one sample, at start
C29_GenerateSamples ==
    ppc = "generated" =>
        IF args.startPos = args.targetPos
        THEN Len(traj) = 1 /\ traj[1].Position = args.startPos
        ELSE /\ Len(traj) = RCeil(FMul(prof.totalTime, sampleRate)) + 1
             /\ \A k \in 1..Len(traj) :
                   traj[k].Time = (IF RLt(prof.totalTime, StepTime(k))
                                   THEN prof.totalTime ELSE StepTime(k))
             /\ \A k \in 1..(Len(traj) - 1) : RLeq(traj[k].Time, traj[k + 1].Time)
             /\ traj[1].Position = args.startPos
             /\ Last.Position = args.targetPos
             /\ Last.Velocity = Zero
             /\ Last.Time = prof.totalTime

\* the distance covered: the integral over [0, T] of the velocity Sample gives, which
\* is a * t on the acceleration ramp, cruiseVel while cruising and
\* cruiseVel - a * tDecel on the deceleration ramp
CoveredDistance(p) ==
    LET ramp == RMul(RMul(Half, p.Acceleration), RMul(p.accelTime, p.accelTime))
        cruise == RMul(p.cruiseVel, p.cruiseTime)
        decel == RSub(RMul(p.cruiseVel, p.decelTime),
                      RMul(RMul(Half, p.Acceleration), RMul(p.decelTime, p.decelTime)))
    IN  RAdd(RAdd(ramp, cruise), decel)
\* the velocity does not change sign before T
NoReversal(p) == RLeq(Zero, RSub(p.cruiseVel, RMul(p.Acceleration, p.decelTime)))
\* C30: for every valid (start, target, vMax, a), in the triangular and in the
\* trapezoidal case, the distance the profile covers is |target - start|
C30_CoveredDistanceIsTravel ==
    ppc \in {"built", "generated"} =>
        /\ NoReversal(prof)
        /\ prof.totalTime = RAdd(RAdd(prof.accelTime, prof.cruiseTime), prof.decelTime)
        /\ CoveredDistance(prof) = RAbs(RSub(args.targetPos, args.startPos))
C30_Witness ==
    /\ ppc = "built" /\ prof.distance = RInt(1) /\ prof.cruiseTime = Zero
    /\ prof.cruiseVel = RInt(1) /\ prof.totalTime = RInt(2)
(***************************************************************************)
(* The CRC (checked under SpecCodec).                                      *)
(***************************************************************************)
\* x with its bit k inverted
FlipBit(x, k) == IF (x \div (2 ^ k)) % 2 = 1 THEN x - 2 ^ k ELSE x + 2 ^ k

\* one step of the bit-serial CRC-16 with polynomial 0x8005 (x^16 + x^15 + x^2 + 1):
\* the register moves left by one, and the polynomial is subtracted when the bit that
\* left it differs from the message bit
ShiftIn(crc, bit) ==
    LET shifted == (2 * crc) % 65536
    IN  IF ((crc \div 32768) + bit) % 2 = 1
        THEN FlipBit(FlipBit(FlipBit(shifted, 15), 2), 0)
        ELSE shifted

RECURSIVE BitwiseByte(_, _, _)
\* the register crc after the j most significant bits of byte b, the first first
BitwiseByte(crc, b, j) ==
    IF j = 0 THEN crc
    ELSE ShiftIn(BitwiseByte(crc, b, j - 1), (b \div (2 ^ (8 - j))) % 2)

\* UpdateCRC on the first k bytes of the data of the call
CrcPrefix(k) == UpdateCRC(crcIn.start, SubSeq(crcIn.data, 1, k))

\* C31: UpdateCRC is CRC-16 with polynomial 0x8005, fed most significant bit first,
\* with no reflection and no final XOR, starting from crcStart: no byte leaves the
\* register as it is, and each byte more takes it where its eight bits, shifted in one
\* by one, take it; from 0 the ping packet FF FF FD 00 01 03 00 01 gives 0x4E19 and
\* the empty string gives 0
C31_UpdateCrcIsCrc16 ==
    cPc = "crc" =>
        /\ CrcPrefix(0) = crcIn.start
        /\ \A k \in 1..Len(crcIn.data) :
             \A before \in {CrcPrefix(k - 1)} :
               CrcPrefix(k) = BitwiseByte(before, crcIn.data[k], 8)
        /\ crcOut = CrcPrefix(Len(crcIn.data))
        /\ (crcIn.start = 0 /\ crcIn.data = PingHead) => crcOut = 19993
        /\ (crcIn.start = 0 /\ crcIn.data = << >>) => crcOut = 0

\* UpdateCRC(0, FF FF FD 00 01 03 00 01) has returned 0x4E19
C31_Witness == cPc = "crc" /\ crcIn = [start |-> 0, data |-> PingHead] /\ crcOut = 19993
(***************************************************************************)
(* More properties of the controller (checked under Spec).                 *)
(***************************************************************************)
\* C32: at the loop's iteration boundary with cancellation already signalled, the
\* loop's next step is the exit that closes the port: it takes no command batch off
\* the channel and starts no telemetry read, whether or not a batch is pending
C32_CancelledLoopOnlyExits ==
    [][(loopPc = "select" /\ cancelled /\ loopPc' # loopPc)
          => (loopPc' = "closed" /\ port' = "closed" /\ CommandChan' = CommandChan)]_vars

\* the loop takes a batch off the command channel
Dequeues == loopPc = "select" /\ loopPc' = "dispatch"
\* the loop is between the dequeue of a batch and the return of its last write
InBatch == loopPc \in {"dispatch", "write", "syncwrite"} /\ cmds' # << >>

FeedbackPrefix ==
    /\ Len(feedbacks) <= Len(motorIDs)
    /\ \A i \in 1..Len(feedbacks) :
         /\ feedbacks[i].ID = motorIDs[i]
         /\ feedbacks[i].ok \in BOOLEAN

\* C34: the feedback batch a tick publishes has exactly one entry per ID of the list
\* sampled in that tick, in list order, each with a value or with an error (an ID whose
\* answer is missing gets an error entry); a failed read of one ID neither removes nor
\* reorders the entries of the others.
C34_OneFeedbackPerId ==
    /\ [](FeedbackPrefix /\ (loopPc = "publish" => Len(feedbacks) = Len(motorIDs)))
    /\ [][(loopPc = "read" /\ loopPc' \in {"read", "publish"})
            => SubSeq(feedbacks', 1, Len(feedbacks)) = feedbacks]_vars

\* a sync read of two IDs in which only the second answered is about to be published
C34_Witness ==
    /\ loopPc = "publish" /\ useSyncReadWrite /\ motorIDs = <<1, 2>>
    /\ feedbacks = <<[ID |-> 1, ok |-> FALSE], [ID |-> 2, ok |-> TRUE]>>

\* individual reads of two IDs of which the first failed are about to be published
C34_WitnessIndividual ==
    /\ loopPc = "publish" /\ ~useSyncReadWrite /\ motorIDs = <<1, 2>>
    /\ feedbacks = <<[ID |-> 1, ok |-> FALSE], [ID |-> 2, ok |-> TRUE]>>

\* the 1-based indices at which FF FF FD begins in d
HeaderAt(d) ==
    {i \in 1..(Len(d) - 2) : d[i] = 255 /\ d[i + 1] = 255 /\ d[i + 2] = 253}

\* C35: in the output of StuffParams every FF FF FD is at once followed by an FD, one
\* inserted per FF FF FD of the input, so FF FF FD followed by another byte or by the
\* end never appears; an input without FF FF FD comes out unchanged.
C35_StuffedHasNoBareHeader ==
    cPc \in {"stuffed", "destuffed"} =>
      /\ \A i \in HeaderAt(cStuffed) : i + 3 <= Len(cStuffed) /\ cStuffed[i + 3] = 253
      /\ Len(cStuffed) = Len(cParams) + Cardinality(HeaderAt(cParams))
      /\ HeaderAt(cParams) = {} => cStuffed = cParams

\* params that end in FF FF FF FD were stuffed: the FD was doubled
C35_Witness ==
    /\ cPc = "stuffed"
    /\ cParams = <<0, 255, 255, 255, 253>>
    /\ cStuffed = <<0, 255, 255, 255, 253, 253>>

\* params with FF FD and FD FF FF but no FF FF FD were stuffed
C35_WitnessUnchanged ==
    /\ cPc = "stuffed"
    /\ cParams = <<255, 253, 253, 255, 255>>
    /\ cStuffed = cParams

\* findPacketStart(b) is the 0-based index of the first FF FF FD of b, -1 without one
FindsFirstHeader(b) ==
    LET f == findPacketStart(b)
    IN  IF HeaderAt(b) = {} THEN f = -1
        ELSE f + 1 \in HeaderAt(b) /\ \A i \in HeaderAt(b) : f + 1 <= i

\* g has FF FF followed by another byte than FD, or by its end, and no FF FF FD
PartialHeaderOnly(g) ==
    /\ \E i \in 1..(Len(g) - 1) : g[i] = 255 /\ g[i + 1] = 255
    /\ HeaderAt(g) = {}

\* C36: findPacketStart returns the index of the first complete FF FF FD and -1 when
\* the buffer holds none (a partial header included), so that the scan is made again
\* after the next read; bytes with a partial header such as FF FF 00 in front of a
\* valid status packet do not keep readPacketWithTimeout from returning that packet.
C36_PartialHeaderSkipped ==
    /\ FindsFirstHeader(buf)
    /\ FindsFirstHeader(buf \o portRx)
    /\ (SingleDone /\ PartialHeaderOnly(garbage)) => ResyncOutcome

\* a Read behind FF FF 00 has returned the packet and its payload
C36_Witness ==
    /\ SingleDone /\ op = "Read"
    /\ garbage = <<255, 255, 0>>
    /\ rxLog[1].kind = "pkt" /\ rxLog[1].pkt = wirePkts[1]
    /\ ret.err = "nil" /\ ret.data = Pos2048

\* the buffer holds FF FF 00 and the first bytes of the packet: no header is found yet
C36_WitnessPartial ==
    /\ dpc = "reading"
    /\ buf = <<255, 255, 0, 255, 255>>
    /\ findPacketStart(buf) = -1

\* ParsePacket got as far as its length check: 11 bytes or more that begin FF FF FD
ReachedLengthCheck ==
    /\ cPc = "parsed"
    /\ pTotal >= 11
    /\ SubSeq(pPkt, 1, 3) = <<255, 255, 253>>

\* C37: the length check of ParsePacket passes exactly when len(packet) = 7 + LEN, for
\* every LEN of 16 bits, those from 65529 on included, where 7 + LEN is 2^16 or more.
C37_LengthCheckExact ==
    ReachedLengthCheck =>
      (pRes.err # "length mismatch" <=> pTotal = 7 + Uint16LE(SubSeq(pPkt, 6, 7)))

\* the modes the switch of SetOperatingMode names
SwitchModes ==
    {OpModeCurrent, OpModeVelocity, OpModePosition, OpModeExtendedPosition,
     OpModeCurrentBasedPos, OpModePWM}

\* the call failed at its torque-disable write or at its operating-mode write
FailedEarly ==
    /\ appPc = "som_failed"
    /\ Len(somLog) <= 2
    /\ somLog[Len(somLog)].addr \in {AddrTorqueEnable, AddrOperatingMode}

\* C38: a SetOperatingMode whose torque-disable write or operating-mode write fails
\* returns that error with the active goal address, the ID list and the sync flag as
\* they were when it was called; a mode the switch does not name leaves the active goal
\* address as it was.
C38_FailedModeChangeKeepsConfig ==
    /\ [](FailedEarly => (somLog[Len(somLog)].res = "err"
                            /\ \A i \in 1..Len(somLog) : somLog[i].op = "write"))
    /\ [][(\/ appPc' \in {"som_disable", "som_mode", "som_sleep"}
            \/ FailedEarly \/ FailedEarly') => UNCHANGED cfgVars]_vars
    /\ [][(appPc = "som_sleep" /\ somMode \notin SwitchModes)
            => (appPc' = "som_enable" /\ activeGoalAddr' = activeGoalAddr)]_vars

\* in velocity mode, a call for PWM mode has failed at its operating-mode write
C38_Witness ==
    /\ FailedEarly /\ somMode = OpModePWM
    /\ Len(somLog) = 2
    /\ somLog[2] = [WriteStep(AddrOperatingMode, OpModePWM) EXCEPT !.res = "err"]
    /\ activeGoalAddr = AddrGoalVelocity

\* in velocity mode, a call with a mode of no case has passed the switch
C38_WitnessNoCase ==
    /\ appPc = "som_enable" /\ somMode \notin SwitchModes
    /\ activeGoalAddr = AddrGoalVelocity

\* the i-th readPacketWithTimeout call returned a packet that parses, sent by servo id
AnswerFrom(i, id) ==
    /\ rxLog[i].kind = "pkt"
    /\ rxLog[i].parsed.err = "nil"
    /\ rxLog[i].parsed.id = id

\* C39: a status packet is taken as the answer of servo X only when its ID field is X:
\* Read, Write and Ping for X succeed only on a packet of X, and SyncRead stores in
\* results[i] data of a packet of ids[i] only.
C39_AnswerIdMatches ==
    /\ (SingleDone /\ ret.err = "nil") => AnswerFrom(1, ids[1])
    /\ (SyncCall /\ dpc \in {"reading", "done"}) =>
         \A i \in 1..Len(rxLog) : results[i].Err = "nil" => AnswerFrom(i, ids[i])

(***************************************************************************)
(* The command channel between the executor and the loop (checked under    *)
(* SpecExec; PendingIsTaken under FairSpecExec).                           *)
(***************************************************************************)
\* how many of the batches the channel accepted the loop has taken off it
Taken == Len(pushed) - Len(CommandChan)

\* the batch the loop took last: its commands written so far and those still to write
InHand ==
    CASE loopPc = "dispatch" -> cmds
      [] loopPc = "syncwrite" -> written
      [] loopPc = "write" -> written \o (IF loopTx THEN Tail(cmds) ELSE cmds)
      [] OTHER -> << >>

\* at most one batch is pending, it is the one accepted last, and the batch the loop
\* is dispatching is the next in send order after those it took before
OneSlotInOrder ==
    /\ Len(CommandChan) <= CommandCap
    /\ CommandChan # << >> => CommandChan[1] = Batch(<<1>>, pushed[Len(pushed)])
    /\ loopPc \in {"dispatch", "syncwrite", "write"} =>
         Taken >= 1 /\ InHand = Batch(<<1>>, pushed[Taken])

\* a send goes into an empty channel only; a batch leaves the channel only into the
\* hands of the loop, and the loop starts a dispatch only with a batch it took then
SendsAndTakes ==
    /\ pushed' # pushed =>
         /\ CommandChan = << >>
         /\ pushed' = Append(pushed, pushed'[Len(pushed')])
         /\ CommandChan' = <<Batch(<<1>>, pushed'[Len(pushed')])>>
    /\ (CommandChan # << >> /\ CommandChan' # CommandChan) =>
         /\ loopPc = "select" /\ loopPc' = "dispatch"
         /\ CommandChan' = << >> /\ cmds' = CommandChan[1]
    /\ (loopPc # "dispatch" /\ loopPc' = "dispatch") => CommandChan # << >>

\* the loop does not pass over a pending batch: when it leaves its select with a batch
\* in the channel it has taken that batch, unless cancellation let it exit
PendingIsNext ==
    (loopPc = "select" /\ CommandChan # << >> /\ loopPc' # loopPc) =>
      \/ loopPc' = "dispatch" /\ cmds' = CommandChan[1]
      \/ cancelled /\ loopPc' = "closed"

\* C40: every batch the command channel accepts is dispatched to the driver once, in
\* send order, by a loop that runs on (no cancellation signalled before the loop takes
\* it, the case C32 is about): the loop's next select takes it; at most one batch is
\* pending, and a sender that blocks waits for room, it neither overwrites nor drops
\* the pending batch.
C40_BatchesDispatchedOnceInOrder ==
    /\ []OneSlotInOrder
    /\ [][SendsAndTakes /\ PendingIsNext]_vars

\* with the loop and the executor scheduled as in FairSpecExec, the k-th batch accepted
\* is taken by the loop unless cancellation is signalled or the loop has made its last
\* tick
PendingIsTaken ==
    \A k \in 1..MaxPoints :
      (Len(pushed) = k /\ CommandChan # << >>)
        ~> (Taken = k \/ cancelled \/ tick = MaxTicks)

\* the first batch is being written while Execute has put the second into the channel
C40_Witness ==
    /\ exKind = "Execute" /\ ~cancelled
    /\ Len(pushed) = 2 /\ Len(CommandChan) = 1
    /\ loopPc = "write" /\ loopTx
    /\ written = Batch(<<1>>, pushed[1])

\* the second batch of an Execute has been taken and is being written
C40_WitnessSecond ==
    /\ exKind = "Execute" /\ ~cancelled
    /\ Len(pushed) = 2 /\ CommandChan = << >>
    /\ loopPc = "write" /\ loopTx
    /\ written = Batch(<<1>>, pushed[2])
====
